---- MODULE Spec2Model ----
(***************************************************************************)
(* Secure Vault: the deduplicating encrypted block store                   *)
(* (operations/block_manager.py), the nested transaction manager of the    *)
(* per-repository database (database/database.py), the crypto and chunking *)
(* helpers (core/crypto.py, core/hash_utils.py), and the import / delete   *)
(* pipelines that drive them.                                              *)
(***************************************************************************)
EXTENDS Integers, Sequences, FiniteSets, TLC

(***************************************************************************)
(* Bounds of the model.                                                    *)
(***************************************************************************)
\* longest host file, in bytes
MaxFileLen == 2
\* chunk size used by the import pipeline, in bytes (BLOCK_SIZE, scaled)
ChunkSize == 1

Bytes == {0, 1}
\* ids of the operation records of one run (operations.id, AUTOINCREMENT)
OperationIds == {1, 2}
\* outcomes of generate_salt() and nacl_random(NONCE_SIZE) in one prepare_block
Randomness == {[salt |-> "s1", nonce |-> "n1"], [salt |-> "s2", nonce |-> "n2"]}
\* ordinal numbers of the host files handed to imports in one run; an
\* operation takes one or more of them
Offers == {1, 2}
\* PINs the user may type
Pins == {"1234", "4321"}
\* outcomes of generate_master_key()
MasterKeys == {"mk", "mk2"}
\* the master key lent to the block manager
MasterKey == "mk"

None == [none |-> TRUE]

\* host files offered for import: one byte string per multiset of bytes
HostFiles ==
    {f \in UNION {[1..n -> Bytes] : n \in 0..MaxFileLen} :
        \A i \in 1..(Len(f) - 1) : f[i] <= f[i + 1]}

\* the source lists an import may be given
SourceLists == UNION {[1..n -> HostFiles] : n \in Offers}

\* quota_bytes of the repository: one that a full block fills
\* exactly, and one that holds every block of a run
Quotas == {ChunkSize + 16, 4 * (ChunkSize + 16)}

VARIABLES
    work,       \* the database as seen through the open connection
    cdb,        \* the database as committed on disk
    disk,       \* blobs under blocks/: relative path -> ciphertext
    depth,      \* RepositoryDatabase._transaction_depth
    pc,         \* position of the single writer
    nextPath,   \* fresh uuid4 blob identifiers: the next one not yet on disk
    ops,        \* the operations table: the records in id order
    imp,        \* import in progress: sources left, host file, chunk index,
                \* block ids, prepared chunk, status seen at the file boundary
    del,        \* delete in progress: file id, blocks still to release
    quota,      \* quota_bytes of the repository
    faults,     \* history: kinds of fault injected so far
    lastFail,   \* history: the store_prepared_block call that raised last
    log,        \* history: the imports and deletes that completed, in order
    cfgFile,    \* config.json as it is on disk
    cfgData,    \* Config._config_data
    app,        \* the application: dialog shown, master key held, config writes to do
    keyHist,    \* history: the setup that completed, the last unlock attempt, the
                \* PINs rejected, the file before and after the write in progress
    repoDb,     \* database._repo_db: path as given, connection
    currentRepoPath, \* database._current_repo_path
    openConns,  \* the sqlite connections that are open
    reachable,  \* the repository paths whose drive is there
    lastGet,    \* history: the last get_repository_database call and the state before it
    tx,         \* nested transaction() blocks: open blocks, exception in flight,
                \* commits and rollbacks issued, statements pending and durable
    vfs,        \* the virtual file tree of a repository: rows, blobs, last call
    sql,        \* a repository database under single statements: rows, last statement
    registry,   \* the repositories table of the global database, last call
    pool,       \* one file in the import pipeline: chunks prepared, chunks committed
    race,       \* two store_prepared_block calls that overlap
    rd,         \* a stored block under retrieve_block_data: blob, row, key, result
    names       \* the names of a destination, and the last get_unique_filename call

storeVars == <<work, cdb, disk, depth, pc, nextPath, ops, imp, del, quota, faults, lastFail, log>>
keyVars == <<cfgFile, cfgData, app, keyHist>>
repoVars == <<repoDb, currentRepoPath, openConns, reachable, lastGet>>

moreVars == <<vfs, sql, registry, pool, race, rd, names>>

\* what the block store's actions leave alone
outside == <<keyVars, repoVars, tx, moreVars>>

vars == <<storeVars, keyVars, repoVars, tx, moreVars>>

(***************************************************************************)
(* core/hash_utils.py                                                      *)
(***************************************************************************)
\* BLAKE2b-256 of the chunk, hex encoded: collision free on the model's chunks
compute_block_hash(data) == <<"blake2b", data>>

Min(a, b) == IF a < b THEN a ELSE b

RECURSIVE iter_file_blocks(_, _)
\* f.read(block_size) until it returns the empty string
iter_file_blocks(file, block_size) ==
    IF Len(file) = 0 THEN <<>>
    ELSE <<SubSeq(file, 1, Min(block_size, Len(file)))>>
         \o iter_file_blocks(SubSeq(file, Min(block_size, Len(file)) + 1, Len(file)),
                             block_size)

count_file_blocks(file, block_size) == (Len(file) + block_size - 1) \div block_size

(***************************************************************************)
(* core/crypto.py                                                          *)
(***************************************************************************)
\* results of the read path: the bytes returned, or the exception raised
Returned(data) == [returned |-> data]
CryptoError == [raised |-> "CryptoError"]
FileNotFound == [raised |-> "FileNotFoundError"]

derive_file_key(master_key, salt) == <<"blake2b", master_key, salt>>

\* SecretBox(key).encrypt(data, nonce).ciphertext: the MAC (16 bytes) over
\* the encrypted data, then the encrypted data
encrypt_block(data, key, nonce) == [key |-> key, nonce |-> nonce, mac |-> data, pt |-> data]

CipherLen(ct) == Len(ct.pt) + 16

\* variant: the data is decrypted without the MAC being verified
decrypt_block_Unverified(encrypted_data, key, nonce) ==
    IF encrypted_data.key = key /\ encrypted_data.nonce = nonce
    THEN Returned(encrypted_data.pt)
    ELSE CryptoError

\* SecretBox(key).decrypt: the MAC is verified under key and nonce; any
\* failure is raised as CryptoError
decrypt_block(encrypted_data, key, nonce) ==
    IF /\ encrypted_data.key = key
       /\ encrypted_data.nonce = nonce
       /\ encrypted_data.mac = encrypted_data.pt
    THEN Returned(encrypted_data.pt)
    ELSE CryptoError

(***************************************************************************)
(* database/database.py: RepositoryDatabase.transaction                    *)
(***************************************************************************)
\* variant: the depth is tested after the decrement
CommitAtDepthZero(d) == d = 0

\* variant: every exit commits, whatever the depth
CommitAtAnyDepth(d) == TRUE

\* commit / rollback is issued only when the block that exits is the outermost
CommitOnExit(d) == d = 1

\* committed database after the normal exit of a block running at depth d
AfterExit(w, c, d) == IF CommitOnExit(d) THEN w ELSE c

\* connection view after an exception leaves a block running at depth d
AfterRaise(w, c, d) == IF CommitOnExit(d) THEN c ELSE w

EmptyDb == [blocks |-> {}, files |-> {}, edges |-> {}, nextBlock |-> 1, nextFile |-> 1]

(***************************************************************************)
(* database/models.py: Block and VirtualFile rows                          *)
(***************************************************************************)
BlockByHash(db, h) == {b \in db.blocks : b.hash = h}

BlockById(db, id) == CHOOSE b \in db.blocks : b.id = id

\* Block.create: INSERT a row with reference_count 1
BlockCreate(db, prep) ==
    [db EXCEPT !.blocks = @ \cup {[id |-> db.nextBlock, hash |-> prep.hash,
                                   path |-> prep.relative_path, size |-> prep.size,
                                   salt |-> prep.salt, nonce |-> prep.nonce, rc |-> 1]},
               !.nextBlock = @ + 1]

SetRc(db, id, n) ==
    [db EXCEPT !.blocks = {IF b.id = id THEN [b EXCEPT !.rc = n] ELSE b : b \in @}]

\* Block.increment_reference
IncrementReference(db, id) == SetRc(db, id, BlockById(db, id).rc + 1)

\* Block.decrement_reference: the row after the decrement
DecrementReference(db, id) == SetRc(db, id, BlockById(db, id).rc - 1)

\* Block.decrement_reference: its result, "the block has no reference left"
ShouldDelete(db, id) == BlockById(db, id).rc <= 0

\* file_blocks.block_id REFERENCES blocks(id): the edges that hold a blocks row
ReferencingEdges(db, id) == {e \in db.edges : e.block = id}

\* Block.delete
BlockDelete(db, id) == [db EXCEPT !.blocks = {b \in @ : b.id # id}]

\* VirtualFile.create: the file row (src: the host bytes it was imported from)
FileCreate(db, host) ==
    [db EXCEPT !.files = @ \cup {[id |-> db.nextFile, size |-> Len(host), src |-> host]},
               !.nextFile = @ + 1]

EdgesOf(db, fid) == {e \in db.edges : e.file = fid}

\* variant: block_order is counted from 1
NextOrderFromOne(db, fid) == Cardinality(EdgesOf(db, fid)) + 1

\* block_order of the next edge of a file: the edges it has so far
NextOrder(db, fid) == Cardinality(EdgesOf(db, fid))

\* INSERT INTO file_blocks (file_id, block_id, block_order)
EdgeCreate(db, fid, bid, k) ==
    [db EXCEPT !.edges = @ \cup {[file |-> fid, block |-> bid, order |-> k]}]

EdgeCount(db, bid) == Cardinality({e \in db.edges : e.block = bid})

\* the block ids of a file in block_order
RECURSIVE OrderedBlocks(_, _, _)
OrderedBlocks(db, fid, k) ==
    IF \E e \in EdgesOf(db, fid) : e.order = k
    THEN <<(CHOOSE e \in EdgesOf(db, fid) : e.order = k).block>>
         \o OrderedBlocks(db, fid, k + 1)
    ELSE <<>>

\* VirtualFile.delete: the row, and its edges by ON DELETE CASCADE
FileDelete(db, fid) ==
    [db EXCEPT !.files = {f \in @ : f.id # fid},
               !.edges = {e \in @ : e.file # fid}]

(***************************************************************************)
(* operations/block_manager.py                                             *)
(***************************************************************************)
\* _generate_block_path: aa/bb/<uuid4 hex>
GenerateBlockPath(n) == <<"blocks", n>>

prepare_block(data, salt, nonce, n) ==
    [hash |-> compute_block_hash(data),
     relative_path |-> GenerateBlockPath(n),
     size |-> CipherLen(encrypt_block(data, derive_file_key(MasterKey, salt), nonce)),
     salt |-> salt,
     nonce |-> nonce,
     encrypted_data |-> encrypt_block(data, derive_file_key(MasterKey, salt), nonce),
     original_size |-> Len(data)]

\* variant: the dedup branch returns the row without the increment
StoreExistingNoIncrement(db, prep) == db

\* store_prepared_block, dedup branch: the database after the call
StoreExisting(db, prep) ==
    IncrementReference(db, (CHOOSE b \in BlockByHash(db, prep.hash) : TRUE).id)

\* variant: the lookup by hash never finds a row
NeverDedupHit(db, prep) == FALSE

\* store_prepared_block: is the hash already stored?
IsDedupHit(db, prep) == BlockByHash(db, prep.hash) # {}

\* store_prepared_block, new block: the blob written to disk
WriteBlob(dsk, prep) ==
    [p \in DOMAIN dsk \cup {prep.relative_path} |->
        IF p = prep.relative_path THEN prep.encrypted_data ELSE dsk[p]]

\* variant: the blob is looked up under a wrong path and nothing is unlinked
delete_block_file_Noop(dsk, block) == dsk

\* delete_block_file: unlink the blob if it exists
delete_block_file(dsk, block) ==
    [p \in DOMAIN dsk \ {block.path} |-> dsk[p]]

\* variant: the key is derived from a fixed salt, not from the row's salt
retrieve_block_data_FixedSalt(master_key, dsk, block) ==
    IF block.path \notin DOMAIN dsk THEN FileNotFound
    ELSE decrypt_block(dsk[block.path], derive_file_key(master_key, "s1"), block.nonce)

\* retrieve_block_data of a block manager that holds master_key
retrieve_block_data(master_key, dsk, block) ==
    IF block.path \notin DOMAIN dsk THEN FileNotFound
    ELSE decrypt_block(dsk[block.path], derive_file_key(master_key, block.salt), block.nonce)

\* export of a virtual file: its blocks read in block_order
ExportFile(db, dsk, fid) ==
    [k \in 1..Len(OrderedBlocks(db, fid, 0)) |->
        retrieve_block_data(MasterKey, dsk, BlockById(db, OrderedBlocks(db, fid, 0)[k]))]

(***************************************************************************)
(* Initial state: a freshly created, empty repository.                     *)
(***************************************************************************)
NoImport == [srcs |-> <<>>, active |-> FALSE, host |-> <<>>, idx |-> 0,
             ids |-> <<>>, prep |-> None, seen |-> "none"]
NoDelete == [fid |-> 0, todo |-> <<>>]

StoreInit ==
    /\ work = EmptyDb
    /\ cdb = EmptyDb
    /\ disk = <<>>
    /\ depth = 0
    /\ pc = "idle"
    /\ nextPath = 1
    /\ ops = <<>>
    /\ imp = NoImport
    /\ del = NoDelete
    /\ quota \in Quotas
    /\ faults = {}
    /\ lastFail = None
    /\ log = <<>>

\* operation records created so far
nops == Len(ops)

\* the operation record of the current / last import
op == IF ops = <<>> THEN [id |-> 0, status |-> "none", error |-> "", total |-> 0]
      ELSE ops[Len(ops)]

\* UPDATE operations SET status, error of the current record
SetOp(status, error) ==
    [ops EXCEPT ![Len(ops)] = [@ EXCEPT !.status = status, !.error = error]]

RECURSIVE TotalOf(_, _)
TotalOf(rows, n) == IF n = 0 THEN 0 ELSE rows[n].total + TotalOf(rows, n - 1)

\* host files handed to imports so far (sum of the records' total counter)
FilesOffered == TotalOf(ops, Len(ops))

Chunks == iter_file_blocks(imp.host, ChunkSize)

\* walker: the next source file of the operation, if any
WalkTo(srcs) ==
    IF srcs = <<>> THEN NoImport
    ELSE [srcs |-> Tail(srcs), active |-> TRUE, host |-> Head(srcs), idx |-> 0,
          ids |-> <<>>, prep |-> None, seen |-> "none"]

\* where the pipeline goes once the walker yielded: the first chunk of the
\* file goes to a worker; a file without chunks, or the end of the sources,
\* goes straight to the committer's file boundary
AfterWalk(i) ==
    IF i.active /\ Len(iter_file_blocks(i.host, ChunkSize)) > 0 THEN "prepare" ELSE "boundary"

(***************************************************************************)
(* Quota                                                                   *)
(***************************************************************************)
RECURSIVE SumSizes(_)
SumSizes(bs) ==
    IF bs = {} THEN 0
    ELSE LET b == CHOOSE x \in bs : TRUE IN b.size + SumSizes(bs \ {b})

\* current_used: the stored sizes of the blocks rows
UsedBytes(db) == SumSizes(db.blocks)

\* variant: the quota is never consulted
QuotaAllowsAlways(db, prep, q) == TRUE

\* variant: the check looks at the new block alone
QuotaIgnoresUsed(db, prep, q) == prep.size <= q

\* the check before a new block is committed
QuotaAllows(db, prep, q) == UsedBytes(db) + prep.size <= q

(***************************************************************************)
(* Import pipeline                                                         *)
(***************************************************************************)
\* walker: the operation record is written with status pending
CreateOperation ==
    /\ pc = "idle"
    /\ nops + 1 \in OperationIds
    /\ \E s \in SourceLists :
        /\ FilesOffered + Len(s) \in Offers
        /\ imp' = [NoImport EXCEPT !.srcs = s]
        /\ ops' = Append(ops, [id |-> nops + 1, status |-> "pending", error |-> "",
                               total |-> Len(s)])
    /\ pc' = "pending"
    /\ lastFail' = None
    /\ UNCHANGED <<work, cdb, disk, depth, nextPath, del, quota, faults, log, outside>>

\* variant: a cancel request marks the record whatever its status
CancelRowAnyStatus(row) == [row EXCEPT !.status = "cancelling"]

\* cancel(op_id): what becomes of the record; only a pending or processing
\* record becomes cancelling
CancelRow(row) ==
    IF row.status \in {"pending", "processing"}
    THEN [row EXCEPT !.status = "cancelling"]
    ELSE row

\* the user asks to cancel an operation, running or not
Cancel ==
    /\ pc # "down"
    /\ \E i \in 1..Len(ops) : ops' = [ops EXCEPT ![i] = CancelRow(@)]
    /\ UNCHANGED <<work, cdb, disk, depth, pc, nextPath, imp, del, quota, faults, lastFail, log, outside>>

\* status pending -> processing; the walker yields the first source
BeginProcessing ==
    /\ pc = "pending"
    /\ ops' = IF op.status = "pending" THEN SetOp("processing", op.error) ELSE ops
    /\ imp' = WalkTo(imp.srcs)
    /\ pc' = AfterWalk(imp')
    /\ UNCHANGED <<work, cdb, disk, depth, nextPath, del, quota, faults, lastFail, log, outside>>

\* worker: prepare_block on the next chunk
PrepareBlock ==
    /\ pc = "prepare"
    /\ \E r \in Randomness :
        imp' = [imp EXCEPT !.prep = prepare_block(Chunks[imp.idx + 1], r.salt, r.nonce, nextPath)]
    /\ pc' = IF imp.idx = 0 THEN "boundary" ELSE "commit"
    /\ UNCHANGED <<work, cdb, disk, depth, nextPath, ops, del, quota, faults, lastFail, log, outside>>

\* the status an operation gets once the committer saw the cancel request
StatusAfterCancelStays == "cancelling"

StatusAfterCancel == "failed"

\* variant: the committer goes on whatever the status
ProceedsAtAny(status) == TRUE

\* the committer starts a file only while the operation is processing
ProceedsAt(status) == status = "processing"

\* committer, at a file boundary: the operation is cancelling; what the
\* workers prepared is dropped and the operation ends
StopOnCancel ==
    /\ pc = "boundary"
    /\ op.status = "cancelling"
    /\ ops' = SetOp(StatusAfterCancel, "interrupted")
    /\ imp' = NoImport
    /\ faults' = faults \cup {IF imp.prep = None THEN "cancel" ELSE "cancel_drop"}
    /\ pc' = "idle"
    /\ UNCHANGED <<work, cdb, disk, depth, nextPath, del, quota, lastFail, log, outside>>

\* committer, after the last file: status processing -> completed
CompleteOperation ==
    /\ pc = "boundary"
    /\ ~imp.active
    /\ op.status = "processing"
    /\ ops' = SetOp("completed", op.error)
    /\ imp' = NoImport
    /\ pc' = "idle"
    /\ UNCHANGED <<work, cdb, disk, depth, nextPath, del, quota, faults, lastFail, log, outside>>

\* committer, at a file boundary: the next file is started
BeginFile ==
    /\ pc = "boundary"
    /\ imp.active
    /\ ProceedsAt(op.status)
    /\ imp' = [imp EXCEPT !.seen = op.status]
    /\ pc' = IF imp.prep = None THEN "link" ELSE "commit"
    /\ UNCHANGED <<work, cdb, disk, depth, nextPath, ops, del, quota, faults, lastFail, log, outside>>

\* committer: the chunk is new and does not fit; the import ends with status failed
QuotaExceeded ==
    /\ pc = "commit"
    /\ ~IsDedupHit(work, imp.prep)
    /\ ~QuotaAllows(work, imp.prep, quota)
    /\ ops' = SetOp("failed", "QuotaExceeded")
    /\ imp' = NoImport
    /\ faults' = faults \cup {"quota"}
    /\ pc' = "idle"
    /\ UNCHANGED <<work, cdb, disk, depth, nextPath, del, quota, lastFail, log, outside>>

\* committer: store_prepared_block up to the blob write, in a new transaction
StoreLookup ==
    /\ pc = "commit"
    /\ IsDedupHit(work, imp.prep) \/ QuotaAllows(work, imp.prep, quota)
    /\ depth' = depth + 1
    /\ IF IsDedupHit(work, imp.prep)
       THEN /\ work' = StoreExisting(work, imp.prep)
            /\ cdb' = AfterExit(work', cdb, depth' + 1)
            /\ imp' = [imp EXCEPT !.ids = Append(@, (CHOOSE b \in BlockByHash(work, imp.prep.hash) : TRUE).id)]
            /\ pc' = "stored"
            /\ UNCHANGED <<disk, nextPath>>
       ELSE /\ disk' = WriteBlob(disk, imp.prep)
            /\ nextPath' = nextPath + 1
            /\ pc' = "written"
            /\ UNCHANGED <<work, cdb, imp>>
    /\ UNCHANGED <<ops, del, quota, faults, lastFail, log, outside>>

\* committer: store_prepared_block, Block.create after the blob write
StoreInsert ==
    /\ pc = "written"
    /\ work' = BlockCreate(work, imp.prep)
    /\ cdb' = AfterExit(work', cdb, depth + 1)
    /\ imp' = [imp EXCEPT !.ids = Append(@, work.nextBlock)]
    /\ pc' = "stored"
    /\ UNCHANGED <<disk, depth, nextPath, ops, del, quota, faults, lastFail, log, outside>>

\* committer: Block.create raises; the exception leaves the transaction and
\* the import ends with status failed
StoreInsertRaises ==
    /\ pc = "written"
    /\ work' = AfterRaise(work, cdb, depth)
    /\ depth' = depth - 1
    /\ ops' = SetOp("failed", "sqlite3.OperationalError")
    /\ lastFail' = [prep |-> imp.prep, diskBefore |-> [p \in DOMAIN disk \ {imp.prep.relative_path} |-> disk[p]]]
    /\ imp' = NoImport
    /\ faults' = faults \cup {"insert"}
    /\ pc' = "idle"
    /\ UNCHANGED <<cdb, disk, nextPath, del, quota, log, outside>>

\* committer: the transaction of a chunk that is not the last one exits
ChunkDone ==
    /\ pc = "stored"
    /\ IF imp.idx + 1 < Len(Chunks)
       THEN /\ cdb' = AfterExit(work, cdb, depth)
            /\ depth' = depth - 1
            /\ imp' = [imp EXCEPT !.idx = @ + 1, !.prep = None]
            /\ pc' = "prepare"
       ELSE /\ pc' = "link"
            /\ UNCHANGED <<cdb, depth, imp>>
    /\ UNCHANGED <<work, disk, nextPath, ops, del, quota, faults, lastFail, log, outside>>

\* committer: the VirtualFile row, in the transaction of the last commit
CreateFileRow ==
    /\ pc = "link"
    /\ depth' = IF depth = 0 THEN 1 ELSE depth
    /\ work' = FileCreate(work, imp.host)
    /\ cdb' = AfterExit(work', cdb, depth' + 1)
    /\ pc' = IF imp.ids = <<>> THEN "filedone" ELSE "edges"
    /\ UNCHANGED <<disk, nextPath, ops, imp, del, quota, faults, lastFail, log, outside>>

\* committer: the next file_blocks edge of the new file
CreateEdges ==
    /\ pc = "edges"
    /\ work' = EdgeCreate(work, work.nextFile - 1,
                          imp.ids[Cardinality(EdgesOf(work, work.nextFile - 1)) + 1],
                          NextOrder(work, work.nextFile - 1))
    /\ cdb' = AfterExit(work', cdb, depth + 1)
    /\ pc' = IF Cardinality(EdgesOf(work', work.nextFile - 1)) >= Len(imp.ids)
             THEN "filedone" ELSE "edges"
    /\ UNCHANGED <<disk, depth, nextPath, ops, imp, del, quota, faults, lastFail, log, outside>>

\* committer: the file's transaction exits; the walker yields the next source
FileDone ==
    /\ pc = "filedone"
    /\ cdb' = AfterExit(work, cdb, depth)
    /\ depth' = depth - 1
    /\ log' = Append(log, [kind |-> "import", file |-> work.nextFile - 1, src |-> imp.host])
    /\ imp' = WalkTo(imp.srcs)
    /\ pc' = AfterWalk(imp')
    /\ UNCHANGED <<work, disk, nextPath, ops, del, quota, faults, lastFail, outside>>

(***************************************************************************)
(* Delete of a virtual file                                                *)
(***************************************************************************)
\* the transaction opens; the file's block edges are enumerated and the file
\* row is deleted, its edges with it: with foreign keys on, a blocks row can
\* go only once no edge holds it
BeginDelete ==
    /\ pc = "idle"
    /\ \E f \in work.files :
        /\ del' = [fid |-> f.id, todo |-> OrderedBlocks(work, f.id, 0)]
        /\ work' = FileDelete(work, f.id)
    /\ depth' = depth + 1
    /\ cdb' = AfterExit(work', cdb, depth' + 1)
    /\ pc' = "release"
    /\ lastFail' = None
    /\ UNCHANGED <<disk, nextPath, ops, imp, quota, faults, log, outside>>

\* delete_block: block.decrement_reference
ReleaseDecrement ==
    /\ pc = "release"
    /\ del.todo # <<>>
    /\ work' = DecrementReference(work, Head(del.todo))
    /\ cdb' = AfterExit(work', cdb, depth + 1)
    /\ IF ShouldDelete(work', Head(del.todo))
       THEN pc' = "unlink" /\ del' = del
       ELSE pc' = "release" /\ del' = [del EXCEPT !.todo = Tail(@)]
    /\ UNCHANGED <<disk, depth, nextPath, ops, imp, quota, faults, lastFail, log, outside>>

\* delete_block: delete_block_file
ReleaseUnlink ==
    /\ pc = "unlink"
    /\ disk' = delete_block_file(disk, BlockById(work, Head(del.todo)))
    /\ pc' = "delrow"
    /\ UNCHANGED <<work, cdb, depth, nextPath, ops, imp, del, quota, faults, lastFail, log, outside>>

\* variant: delete_block unlinks the blob but leaves the row
ReleaseRowKeepsRow ==
    /\ pc = "delrow"
    /\ del' = [del EXCEPT !.todo = Tail(@)]
    /\ pc' = "release"
    /\ UNCHANGED <<work, cdb, disk, depth, nextPath, ops, imp, quota, faults, lastFail, log, outside>>

\* delete_block: block.delete
ReleaseRow ==
    /\ pc = "delrow"
    /\ ReferencingEdges(work, Head(del.todo)) = {}
    /\ work' = BlockDelete(work, Head(del.todo))
    /\ cdb' = AfterExit(work', cdb, depth + 1)
    /\ del' = [del EXCEPT !.todo = Tail(@)]
    /\ pc' = "release"
    /\ UNCHANGED <<disk, depth, nextPath, ops, imp, quota, faults, lastFail, log, outside>>

\* every block of the file is released; the transaction exits
DeleteDone ==
    /\ pc = "release"
    /\ del.todo = <<>>
    /\ cdb' = AfterExit(work, cdb, depth)
    /\ depth' = depth - 1
    /\ log' = Append(log, [kind |-> "delete", file |-> del.fid, src |-> <<>>])
    /\ del' = NoDelete
    /\ pc' = "idle"
    /\ UNCHANGED <<work, disk, nextPath, ops, imp, quota, faults, lastFail, outside>>

(***************************************************************************)
(* Process death and restart                                               *)
(***************************************************************************)
InImport == pc \in {"pending", "prepare", "boundary", "commit", "written", "stored",
                    "link", "edges", "filedone"}
InDelete == pc \in {"release", "unlink", "delrow"}

\* the process is killed: uncommitted changes are lost, blobs stay
Crash ==
    /\ InImport \/ InDelete
    /\ faults' = faults \cup {IF InImport THEN "kill_import" ELSE "kill_delete"}
    /\ work' = cdb
    /\ depth' = 0
    /\ imp' = NoImport
    /\ del' = NoDelete
    /\ pc' = "down"
    /\ UNCHANGED <<cdb, disk, nextPath, ops, quota, lastFail, log, outside>>

\* variant: the scan only looks for rows left in processing
ScannedRowProcessingOnly(row) ==
    IF row.status = "processing"
    THEN [row EXCEPT !.status = "failed", !.error = "interrupted"]
    ELSE row

\* startup scan: what becomes of one row of the operations table
ScannedRow(row) ==
    IF row.status \in {"processing", "cancelling"}
    THEN [row EXCEPT !.status = "failed", !.error = "interrupted"]
    ELSE row

\* startup scan of the operations table
Restart ==
    /\ pc = "down"
    /\ ops' = [i \in 1..Len(ops) |-> ScannedRow(ops[i])]
    /\ pc' = "idle"
    /\ UNCHANGED <<work, cdb, disk, depth, nextPath, imp, del, quota, faults, lastFail, log, outside>>

Next ==
    \/ CreateOperation
    \/ Cancel
    \/ BeginProcessing
    \/ PrepareBlock
    \/ StopOnCancel
    \/ CompleteOperation
    \/ BeginFile
    \/ QuotaExceeded
    \/ StoreLookup
    \/ StoreInsert
    \/ StoreInsertRaises
    \/ ChunkDone
    \/ CreateFileRow
    \/ CreateEdges
    \/ FileDone
    \/ BeginDelete
    \/ ReleaseDecrement
    \/ ReleaseUnlink
    \/ ReleaseRow
    \/ DeleteDone
    \/ Crash
    \/ Restart

(***************************************************************************)
(* core/crypto.py: the master key under the PIN                            *)
(***************************************************************************)
Some(x) == [some |-> x]

\* derive_key_from_pin: Argon2id of the PIN's UTF-8 bytes under the salt
derive_key_from_pin(pin, salt) == <<"argon2id", pin, salt>>

\* encrypt_master_key, with the salt and the nonce it draws:
\* (ciphertext, salt, nonce)
encrypt_master_key(master_key, pin, r) ==
    [ciphertext |-> encrypt_block(master_key, derive_key_from_pin(pin, r.salt), r.nonce),
     salt |-> r.salt,
     nonce |-> r.nonce]

\* variant: the box is opened without the key derived from the PIN
decrypt_master_key_AnyPin(encrypted_key, pin, salt, nonce) ==
    IF encrypted_key = None THEN CryptoError ELSE Returned(encrypted_key.some.pt)

\* decrypt_master_key on Optional[bytes] arguments: any exception, that of
\* a missing argument included, becomes CryptoError
decrypt_master_key(encrypted_key, pin, salt, nonce) ==
    IF None \in {encrypted_key, salt, nonce} THEN CryptoError
    ELSE decrypt_block(encrypted_key.some, derive_key_from_pin(pin, salt.some), nonce.some)

\* compute_key_hash: BLAKE2b-256 of the key, hex encoded
compute_key_hash(key) == [hex |-> <<"blake2b", key>>]

verify_key_hash(key, expected_hash) == compute_key_hash(key) = expected_hash

(***************************************************************************)
(* core/config.py: config.json                                             *)
(***************************************************************************)
\* bytes.hex() and bytes.fromhex()
Hex(b) == [hex |-> b]
FromHex(h) == h.hex

\* the files json.dump writes and what json.load reads back from them
json_dump(d) == [json |-> d]
json_load(f) == f.json

\* config.json does not exist
Absent == [absent |-> TRUE]
\* config.json is empty or ends inside the document
Torn == [torn |-> TRUE]

EmptyDoc == [k \in {} |-> None]

\* Config._load_config
_load_config(file) == IF file \in {Absent, Torn} THEN EmptyDoc ELSE json_load(file)

\* Config.is_first_run
is_first_run(d) == "encrypted_master_key" \notin DOMAIN d

\* self._config_data[key] = value
Put(d, key, value) == [k \in DOMAIN d \cup {key} |-> IF k = key THEN value ELSE d[k]]

\* the bytes getters: bytes.fromhex of the stored text, None when missing
GetBytes(d, key) == IF key \in DOMAIN d THEN Some(FromHex(d[key])) ELSE None

\* the master_key_hash getter
GetHash(d) == IF "master_key_hash" \in DOMAIN d THEN d["master_key_hash"] ELSE None

(***************************************************************************)
(* main.py: first-time setup and PIN verification                          *)
(***************************************************************************)
AppOff == [pc |-> "off", master_key |-> None, fresh |-> None, todo |-> <<>>, open |-> FALSE,
           main_window |-> None, flow |-> "none"]

NoKeyHist == [setup |-> None, unlock |-> None, rejected |-> {},
              prevFile |-> None, newFile |-> None, cut |-> FALSE,
              pin |-> None, earlier |-> {}, change |-> None, interrupted |-> FALSE]

KeyInit ==
    /\ cfgFile = Absent
    /\ cfgData = EmptyDoc
    /\ app = AppOff
    /\ keyHist = NoKeyHist

\* the application starts: Config() reads config.json, run() picks the dialog
KeyStart ==
    /\ app.pc = "off"
    /\ cfgData' = _load_config(cfgFile)
    /\ app' = [AppOff EXCEPT !.pc = IF is_first_run(cfgData') THEN "first" ELSE "locked"]
    /\ keyHist' = [keyHist EXCEPT !.unlock = None, !.rejected = {}, !.cut = FALSE]
    /\ UNCHANGED <<cfgFile, storeVars, repoVars, tx, moreVars>>

\* _first_time_setup up to the first config write: the master key is
\* generated, the PIN chosen, the key encrypted under it
FirstTimeSetup ==
    /\ app.pc = "first"
    /\ \E master_key \in MasterKeys, pin \in Pins, r \in Randomness :
        LET e == encrypt_master_key(master_key, pin, r) IN
        app' = [app EXCEPT
                  !.pc = "setters",
                  !.flow = "setup",
                  !.fresh = [key |-> master_key, pin |-> pin],
                  !.todo = << [key |-> "encrypted_master_key", value |-> Hex(e.ciphertext)],
                              [key |-> "master_key_salt", value |-> Hex(e.salt)],
                              [key |-> "master_key_nonce", value |-> Hex(e.nonce)],
                              [key |-> "master_key_hash", value |-> compute_key_hash(master_key)] >>]
    /\ UNCHANGED <<cfgFile, cfgData, keyHist, storeVars, repoVars, tx, moreVars>>

\* a config setter and the start of _save_config: open(config_file, "w")
SetterOpen ==
    /\ app.pc = "setters"
    /\ ~app.open
    /\ cfgData' = Put(cfgData, Head(app.todo).key, Head(app.todo).value)
    /\ cfgFile' = Torn
    /\ app' = [app EXCEPT !.open = TRUE]
    /\ keyHist' = [keyHist EXCEPT !.prevFile = cfgFile, !.newFile = json_dump(cfgData')]
    /\ UNCHANGED <<storeVars, repoVars, tx, moreVars>>

\* the rest of _save_config: json.dump and the close of the file; after the
\* last setter _first_time_setup keeps the master key, and the PIN change
\* dialog is accepted
SetterDump ==
    /\ app.pc = "setters"
    /\ app.open
    /\ cfgFile' = json_dump(cfgData)
    /\ IF Len(app.todo) > 1
       THEN /\ app' = [app EXCEPT !.open = FALSE, !.todo = Tail(@)]
            /\ keyHist' = keyHist
       ELSE IF app.flow = "setup"
       THEN /\ app' = [app EXCEPT !.open = FALSE, !.todo = <<>>, !.pc = "unlocked",
                                  !.flow = "none",
                                  !.master_key = Some(app.fresh.key)]
            /\ keyHist' = [keyHist EXCEPT !.setup = app.fresh, !.pin = Some(app.fresh.pin),
                                          !.earlier = {}]
       ELSE /\ app' = [app EXCEPT !.open = FALSE, !.todo = <<>>, !.pc = "main",
                                  !.flow = "none"]
            /\ keyHist' = [keyHist EXCEPT !.pin = Some(app.fresh.pin),
                                          !.earlier = @ \cup {keyHist.pin.some}]
    /\ UNCHANGED <<cfgData, storeVars, repoVars, tx, moreVars>>

\* variant: the decrypted key is taken without the hash being compared
VerifyAttempt_NoHashCheck(d, pin) ==
    decrypt_master_key(GetBytes(d, "encrypted_master_key"), pin,
                       GetBytes(d, "master_key_salt"),
                       GetBytes(d, "master_key_nonce"))

\* what one attempt of _verify_pin yields: the decrypted key, or the failure
VerifyAttempt(d, pin) ==
    LET r == decrypt_master_key(GetBytes(d, "encrypted_master_key"), pin,
                                GetBytes(d, "master_key_salt"),
                                GetBytes(d, "master_key_nonce")) IN
    IF r = CryptoError THEN CryptoError
    ELSE IF verify_key_hash(r.returned, GetHash(d)) THEN r
    ELSE [raised |-> "invalid"]

\* _verify_pin: one PIN entered in the unlock dialog
VerifyPin ==
    /\ app.pc = "locked"
    /\ \E pin \in Pins :
        LET r == VerifyAttempt(cfgData, pin) IN
        /\ app' = IF "returned" \in DOMAIN r
                  THEN [app EXCEPT !.pc = "unlocked", !.master_key = Some(r.returned)]
                  ELSE app
        /\ keyHist' = [keyHist EXCEPT
                         !.unlock = [pin |-> pin, result |-> r],
                         !.rejected = IF "returned" \in DOMAIN r THEN @ ELSE @ \cup {pin}]
    /\ UNCHANGED <<cfgFile, cfgData, storeVars, repoVars, tx, moreVars>>

\* the process ends, by quit or by kill: memory is lost, config.json stays
KeyStop ==
    /\ app.pc # "off"
    /\ app' = AppOff
    /\ cfgData' = EmptyDoc
    /\ keyHist' = [keyHist EXCEPT
                     !.unlock = None, !.rejected = {}, !.cut = app.open, !.change = None,
                     !.interrupted = @ \/ (app.flow = "change" /\ (app.open \/ Len(app.todo) < 3))]
    /\ UNCHANGED <<cfgFile, storeVars, repoVars, tx, moreVars>>

\* what get_active_repository() may return: the active repository, if the
\* registry has one that still exists
ActiveRepositories == {None} \cup {Some(id) : id \in {1, 2}}

\* run(): _select_repository; an active repository is there, or the user
\* selects one in the repository manager, or closes it and run() returns
SelectRepository ==
    /\ app.pc = "unlocked"
    /\ \E active_repo \in ActiveRepositories, selected \in BOOLEAN :
        IF active_repo # None \/ selected
        THEN /\ app' = [app EXCEPT !.pc = "selected"]
             /\ UNCHANGED <<cfgData, keyHist>>
        ELSE /\ app' = AppOff
             /\ cfgData' = EmptyDoc
             /\ keyHist' = [keyHist EXCEPT !.unlock = None, !.rejected = {}, !.cut = FALSE]
    /\ UNCHANGED <<cfgFile, storeVars, repoVars, tx, moreVars>>

\* run(): get_active_repository(); without a repository run() returns 1,
\* with one the main window is built from self.master_key and the repository
ShowMainWindow ==
    /\ app.pc = "selected"
    /\ \E repo \in ActiveRepositories :
        IF repo = None
        THEN /\ app' = AppOff
             /\ cfgData' = EmptyDoc
             /\ keyHist' = [keyHist EXCEPT !.unlock = None, !.rejected = {}, !.cut = FALSE]
        ELSE /\ app' = [app EXCEPT !.pc = "main",
                                   !.main_window = Some([master_key |-> app.master_key,
                                                         repo |-> repo.some])]
             /\ UNCHANGED <<cfgData, keyHist>>
    /\ UNCHANGED <<cfgFile, storeVars, repoVars, tx, moreVars>>

KeyNext ==
    \/ KeyStart
    \/ FirstTimeSetup
    \/ SetterOpen
    \/ SetterDump
    \/ VerifyPin
    \/ SelectRepository
    \/ ShowMainWindow
    \/ KeyStop

(***************************************************************************)
(* database/database.py: the module's current repository database          *)
(***************************************************************************)
\* repository paths as the callers write them
RepoPaths == {<<"A">>, <<"A", ".">>, <<"B">>}

\* the sqlite connections a process may hold at one time
ConnIds == {1, 2}

\* str(Path(repo_path).resolve())
Resolve(p) == SelectSeq(p, LAMBDA c : c # ".")

\* an id for a connection about to be opened
FreshConn == CHOOSE c \in ConnIds : c \notin openConns

NoGet == [arg |-> None, outcome |-> "", repoDb |-> None, currentRepoPath |-> None,
          openConns |-> {}]

RepoInit ==
    /\ repoDb = None
    /\ currentRepoPath = None
    /\ openConns = {}
    /\ reachable = {Resolve(p) : p \in RepoPaths}
    /\ lastGet = NoGet

\* the call a get_repository_database(repo_path) is remembered by
Called(p, outcome) ==
    [arg |-> Some(p), outcome |-> outcome, repoDb |-> repoDb,
     currentRepoPath |-> currentRepoPath, openConns |-> openConns]

\* CASE 1 of get_repository_database applies
IsCurrent(p) == currentRepoPath = Some(Resolve(p)) /\ repoDb # None

\* CASE 1, connection alive: the current database is returned
GetCurrent(p) ==
    /\ IsCurrent(p)
    /\ repoDb.connection # None
    /\ lastGet' = Called(p, "returned")
    /\ UNCHANGED <<repoDb, currentRepoPath, openConns, reachable>>

\* CASE 1, connection gone: _repo_db.connect()
Reconnect(p) ==
    /\ IsCurrent(p)
    /\ repoDb.connection = None
    /\ IF Resolve(repoDb.path) \in reachable
       THEN /\ repoDb' = [repoDb EXCEPT !.connection = Some(FreshConn)]
            /\ openConns' = openConns \cup {FreshConn}
            /\ lastGet' = Called(p, "returned")
       ELSE /\ lastGet' = Called(p, "raised")
            /\ UNCHANGED <<repoDb, openConns>>
    /\ UNCHANGED <<currentRepoPath, reachable>>

\* variant: the old database is closed and forgotten before the new connects
SwitchRaisesAfterClose(p) ==
    /\ ~IsCurrent(p)
    /\ Resolve(p) \notin reachable
    /\ repoDb' = None
    /\ currentRepoPath' = None
    /\ openConns' = IF repoDb # None /\ repoDb.connection # None
                    THEN openConns \ {repoDb.connection.some} ELSE openConns
    /\ lastGet' = Called(p, "raised")
    /\ UNCHANGED reachable

\* CASE 2, new_db.connect() raises: the exception leaves the function
SwitchRaises(p) ==
    /\ ~IsCurrent(p)
    /\ Resolve(p) \notin reachable
    /\ lastGet' = Called(p, "raised")
    /\ UNCHANGED <<repoDb, currentRepoPath, openConns, reachable>>

\* variant: the previous database is left open when the new one takes over
Switch_KeepsOldOpen(p) ==
    /\ ~IsCurrent(p)
    /\ Resolve(p) \in reachable
    /\ repoDb' = [path |-> p, connection |-> Some(FreshConn)]
    /\ openConns' = openConns \cup {FreshConn}
    /\ currentRepoPath' = Some(Resolve(p))
    /\ lastGet' = Called(p, "returned")
    /\ UNCHANGED reachable

\* CASE 2, new_db.connect() succeeds: the old database is closed, the
\* globals are updated
Switch(p) ==
    /\ ~IsCurrent(p)
    /\ Resolve(p) \in reachable
    /\ repoDb' = [path |-> p, connection |-> Some(FreshConn)]
    /\ openConns' = (IF repoDb # None /\ repoDb.connection # None
                     THEN openConns \ {repoDb.connection.some} ELSE openConns)
                    \cup {FreshConn}
    /\ currentRepoPath' = Some(Resolve(p))
    /\ lastGet' = Called(p, "returned")
    /\ UNCHANGED reachable

\* get_repository_database(None): the current database, whatever it is
GetNone ==
    /\ lastGet' = [NoGet EXCEPT !.outcome = "returned"]
    /\ UNCHANGED <<repoDb, currentRepoPath, openConns, reachable>>

\* get_repository_database(repo_path)
GetRepositoryDatabase ==
    /\ \/ GetNone
       \/ \E p \in RepoPaths :
            GetCurrent(p) \/ Reconnect(p) \/ SwitchRaises(p) \/ Switch(p)
    /\ UNCHANGED <<storeVars, keyVars, tx, moreVars>>

\* close_repository_database
CloseRepositoryDatabase ==
    /\ repoDb # None
    /\ openConns' = IF repoDb.connection # None
                    THEN openConns \ {repoDb.connection.some} ELSE openConns
    /\ repoDb' = None
    /\ currentRepoPath' = None
    /\ lastGet' = NoGet
    /\ UNCHANGED <<reachable, storeVars, keyVars, tx, moreVars>>

\* RepositoryDatabase.close on the current database: the globals keep it
CloseConnection ==
    /\ repoDb # None
    /\ repoDb.connection # None
    /\ openConns' = openConns \ {repoDb.connection.some}
    /\ repoDb' = [repoDb EXCEPT !.connection = None]
    /\ lastGet' = NoGet
    /\ UNCHANGED <<currentRepoPath, reachable, storeVars, keyVars, tx, moreVars>>

\* a drive is unplugged or plugged back
DriveChange ==
    /\ \E d \in {Resolve(p) : p \in RepoPaths} :
        reachable' = IF d \in reachable THEN reachable \ {d} ELSE reachable \cup {d}
    /\ lastGet' = NoGet
    /\ UNCHANGED <<repoDb, currentRepoPath, openConns, storeVars, keyVars, tx, moreVars>>

RepoNext ==
    \/ GetRepositoryDatabase
    \/ CloseRepositoryDatabase
    \/ CloseConnection
    \/ DriveChange

(***************************************************************************)
(* database/database.py: nested transaction() blocks of a database         *)
(***************************************************************************)
\* deepest nesting of with-blocks explored
MaxNesting == 3

\* the statements a block body may execute
Writes == {"w1", "w2"}

\* no exit of a transaction() block yet
NoExit == [done |-> FALSE, conn |-> None, depth |-> 0, after |-> 0, current |-> None,
           issued |-> "none", on |-> None, error |-> FALSE]

\* connection: _connection; frames: for every open block, conn and
\* _transaction_depth as transaction() found them at entry
NoTx == [open |-> 0, deepest |-> 0, exc |-> FALSE, commits |-> 0, rollbacks |-> 0, last |-> "none",
         pending |-> {}, durable |-> {}, connection |-> Some(1), frames |-> <<>>,
         exit |-> NoExit]

TxInit == tx = NoTx

\* variant: the exit does not look at the connection again
SameConnection_Unchecked(conn) == TRUE

\* self._connection and self._connection == conn
SameConnection(conn) == tx.connection # None /\ tx.connection = conn

\* what the exit of the block entered as f issues: commit() or rollback() of
\* self._connection at depth 1; on None the call is an AttributeError
Issue(f, what) ==
    IF f.conn # None /\ CommitOnExit(depth) /\ SameConnection(f.conn)
    THEN IF tx.connection = None
         THEN [issued |-> "none", on |-> None, error |-> TRUE]
         ELSE [issued |-> what, on |-> tx.connection, error |-> FALSE]
    ELSE [issued |-> "none", on |-> None, error |-> FALSE]

\* _transaction_depth after the exit of the block entered as f
DepthAfter(f) == IF f.conn = None THEN depth ELSE depth - 1

\* the exit of the block entered as f, as it is remembered
Exited(f, act) ==
    [done |-> TRUE, conn |-> f.conn, depth |-> f.depth, after |-> DepthAfter(f),
     current |-> tx.connection, issued |-> act.issued, on |-> act.on,
     error |-> act.error]

\* __enter__ of transaction(): without a connection nothing, else
\* _transaction_depth += 1
TxnEnter ==
    /\ pc = "idle"
    /\ ~tx.exc
    /\ tx.open < MaxNesting
    /\ depth' = IF tx.connection = None THEN depth ELSE depth + 1
    /\ tx' = [tx EXCEPT
                !.open = @ + 1,
                !.deepest = IF tx.open = 0 THEN 1
                            ELSE IF tx.open + 1 > @ THEN tx.open + 1 ELSE @,
                !.commits = IF depth = 0 THEN 0 ELSE @,
                !.rollbacks = IF depth = 0 THEN 0 ELSE @,
                !.last = IF tx.open = 0 THEN "none" ELSE @,
                !.frames = Append(@, [conn |-> tx.connection, depth |-> depth])]
    /\ UNCHANGED <<work, cdb, disk, pc, nextPath, ops, imp, del, quota, faults, lastFail,
                   log, keyVars, repoVars, moreVars>>

\* a statement of the innermost block's body writes through the connection
TxnWrite ==
    /\ tx.open > 0
    /\ ~tx.exc
    /\ tx.connection # None
    /\ \E w \in Writes \ (tx.pending \cup tx.durable) :
        tx' = [tx EXCEPT !.pending = @ \cup {w}]
    /\ UNCHANGED <<storeVars, keyVars, repoVars, moreVars>>

\* a statement of the innermost block's body raises an Exception
TxnRaise ==
    /\ tx.open > 0
    /\ ~tx.exc
    /\ tx' = [tx EXCEPT !.exc = TRUE]
    /\ UNCHANGED <<storeVars, keyVars, repoVars, moreVars>>

\* the exception is caught by a handler in the body it has reached
TxnCatch ==
    /\ tx.open > 0
    /\ tx.exc
    /\ tx' = [tx EXCEPT !.exc = FALSE]
    /\ UNCHANGED <<storeVars, keyVars, repoVars, moreVars>>

\* the innermost block ends normally: commit at depth 1 on the connection of
\* the entry, depth -= 1
TxnExit ==
    /\ tx.open > 0
    /\ ~tx.exc
    /\ LET f == tx.frames[tx.open]
           act == Issue(f, "commit")
       IN /\ depth' = DepthAfter(f)
          /\ tx' = [tx EXCEPT
                      !.open = @ - 1,
                      !.frames = SubSeq(@, 1, tx.open - 1),
                      !.commits = IF act.issued = "commit" THEN @ + 1 ELSE @,
                      !.durable = IF act.issued = "commit" THEN @ \cup tx.pending ELSE @,
                      !.pending = IF act.issued = "commit" THEN {} ELSE @,
                      !.exc = act.error /\ tx.open > 1,
                      !.last = IF tx.open > 1 THEN @
                               ELSE IF act.error THEN "raised" ELSE "normal",
                      !.exit = Exited(f, act)]
    /\ UNCHANGED <<work, cdb, disk, pc, nextPath, ops, imp, del, quota, faults, lastFail,
                   log, keyVars, repoVars, moreVars>>

\* the exception leaves the innermost block: rollback at depth 1 on the
\* connection of the entry, re-raise, depth -= 1; out of the outermost block
\* it reaches the caller
TxnExitRaised ==
    /\ tx.open > 0
    /\ tx.exc
    /\ LET f == tx.frames[tx.open]
           act == Issue(f, "rollback")
       IN /\ depth' = DepthAfter(f)
          /\ tx' = [tx EXCEPT
                      !.open = @ - 1,
                      !.frames = SubSeq(@, 1, tx.open - 1),
                      !.rollbacks = IF act.issued = "rollback" THEN @ + 1 ELSE @,
                      !.pending = IF act.issued = "rollback" THEN {} ELSE @,
                      !.exc = tx.open > 1,
                      !.last = IF tx.open = 1 THEN "raised" ELSE @,
                      !.exit = Exited(f, act)]
    /\ UNCHANGED <<work, cdb, disk, pc, nextPath, ops, imp, del, quota, faults, lastFail,
                   log, keyVars, repoVars, moreVars>>

\* RepositoryDatabase.close(): the connection is closed and forgotten, what it
\* had not committed is gone
TxnClose ==
    /\ ~tx.exc
    /\ tx.connection # None
    /\ tx' = [tx EXCEPT !.connection = None, !.pending = {}]
    /\ UNCHANGED <<storeVars, keyVars, repoVars, moreVars>>

\* RepositoryDatabase.connect() after a close: another connection object than
\* any an open block holds
TxnConnect ==
    /\ ~tx.exc
    /\ tx.connection = None
    /\ \E c \in ConnIds :
        /\ \A i \in 1..Len(tx.frames) : tx.frames[i].conn # Some(c)
        /\ tx' = [tx EXCEPT !.connection = Some(c)]
    /\ UNCHANGED <<storeVars, keyVars, repoVars, moreVars>>

TxnNext ==
    \/ TxnEnter
    \/ TxnWrite
    \/ TxnRaise
    \/ TxnCatch
    \/ TxnExit
    \/ TxnExitRaised

\* the transactions of a database that is closed and connected again
TxnConnNext ==
    \/ TxnNext
    \/ TxnClose
    \/ TxnConnect

(***************************************************************************)
(* database/database.py: the repository schema under single statements     *)
(***************************************************************************)
\* parent_id of a row directly under the root: NULL
Root == 0

\* ids a statement may name, those of rows that do not exist included
FileIds == {1, 2, 3}
BlockIds == {1, 2}
BlockOrders == {0}

\* the chunks the blocks of this part are made of: one byte each
OneByteChunks == [1..1 -> Bytes]

\* what a statement or a call does: the database after it, and the error raised
Ok(db) == [db |-> db, error |-> "none"]
IntegrityError(db) == [db |-> db, error |-> "sqlite3.IntegrityError"]

\* INSERT INTO files: parent_id REFERENCES files(id)
SqlInsertFile(db, parent, name, is_directory) ==
    IF parent # Root /\ parent \notin {f.id : f \in db.files} THEN IntegrityError(db)
    ELSE Ok([db EXCEPT !.files = @ \cup {[id |-> db.nextFile, parent |-> parent,
                                          name |-> name, is_directory |-> is_directory]},
                       !.nextFile = @ + 1])

\* variant: the blocks table without UNIQUE on hash
SqlInsertBlockNotUnique(db, prep) == Ok(BlockCreate(db, prep))

\* INSERT INTO blocks: hash TEXT NOT NULL UNIQUE
SqlInsertBlock(db, prep) ==
    IF BlockByHash(db, prep.hash) # {} THEN IntegrityError(db)
    ELSE Ok(BlockCreate(db, prep))

\* INSERT INTO file_blocks: file_id REFERENCES files(id), block_id REFERENCES
\* blocks(id), PRIMARY KEY (file_id, block_order)
SqlInsertEdge(db, fid, bid, k) ==
    IF \/ fid \notin {f.id : f \in db.files}
       \/ bid \notin {b.id : b \in db.blocks}
       \/ \E e \in db.edges : e.file = fid /\ e.order = k
    THEN IntegrityError(db)
    ELSE Ok(EdgeCreate(db, fid, bid, k))

\* variant: the connection without PRAGMA foreign_keys = ON
SqlDeleteBlockUnchecked(db, bid) == Ok(BlockDelete(db, bid))

\* DELETE FROM blocks WHERE id = ?: block_id REFERENCES blocks(id) has no
\* ON DELETE action, the statement fails while an edge holds the row
SqlDeleteBlock(db, bid) ==
    IF ReferencingEdges(db, bid) # {} THEN IntegrityError(db)
    ELSE Ok(BlockDelete(db, bid))

\* the rows under a set of files rows, those rows included
RECURSIVE Subtree(_, _)
Subtree(db, ids) ==
    LET more == {f.id : f \in {g \in db.files : g.parent \in ids}} IN
    IF more \subseteq ids THEN ids ELSE Subtree(db, ids \cup more)

\* DELETE FROM files WHERE id = ?: parent_id and file_blocks.file_id are
\* ON DELETE CASCADE
SqlDeleteFile(db, fid) ==
    Ok([db EXCEPT !.files = {f \in @ : f.id \notin Subtree(db, {fid})},
                  !.edges = {e \in @ : e.file \notin Subtree(db, {fid})}])

NoStatement == [stmt |-> "none", error |-> "none"]

SqlInit == sql = [db |-> EmptyDb, last |-> NoStatement]

\* the connection after a statement: a failed statement changes nothing
Executed(stmt, r) == [db |-> r.db, last |-> [stmt |-> stmt, error |-> r.error]]

SchemaInsertFile ==
    /\ sql.db.nextFile \in FileIds
    /\ \E parent \in {Root} \cup FileIds :
        sql' = Executed("insert_file", SqlInsertFile(sql.db, parent, "n", TRUE))
    /\ UNCHANGED <<names, storeVars, keyVars, repoVars, tx, vfs, registry, pool, race, rd>>

SchemaInsertBlock ==
    /\ sql.db.nextBlock \in BlockIds
    /\ \E data \in OneByteChunks :
        sql' = Executed("insert_block",
                        SqlInsertBlock(sql.db, prepare_block(data, "s1", "n1", sql.db.nextBlock)))
    /\ UNCHANGED <<names, storeVars, keyVars, repoVars, tx, vfs, registry, pool, race, rd>>

SchemaInsertEdge ==
    /\ \E fid \in FileIds, bid \in BlockIds, k \in BlockOrders :
        sql' = Executed("insert_edge", SqlInsertEdge(sql.db, fid, bid, k))
    /\ UNCHANGED <<names, storeVars, keyVars, repoVars, tx, vfs, registry, pool, race, rd>>

SchemaDeleteBlock ==
    /\ \E b \in sql.db.blocks :
        sql' = Executed("delete_block", SqlDeleteBlock(sql.db, b.id))
    /\ UNCHANGED <<names, storeVars, keyVars, repoVars, tx, vfs, registry, pool, race, rd>>

SchemaDeleteFile ==
    /\ \E f \in sql.db.files :
        sql' = Executed("delete_file", SqlDeleteFile(sql.db, f.id))
    /\ UNCHANGED <<names, storeVars, keyVars, repoVars, tx, vfs, registry, pool, race, rd>>

SchemaNext ==
    \/ SchemaInsertFile
    \/ SchemaInsertBlock
    \/ SchemaInsertEdge
    \/ SchemaDeleteBlock
    \/ SchemaDeleteFile

(***************************************************************************)
(* utils/file_utils.py and the virtual file tree                           *)
(***************************************************************************)
\* a file name is the sequence of its characters
\* decimal digits, and f"{counter}"
Digit(n) == <<"0", "1", "2", "3", "4", "5", "6", "7", "8", "9">>[n + 1]

RECURSIVE Decimal(_)
Decimal(n) == IF n < 10 THEN <<Digit(n)>> ELSE Decimal(n \div 10) \o <<Digit(n % 10)>>

\* Path(name).name of a name without separators: the name, and nothing for "."
PathName(name) == IF name = <<".">> THEN <<>> ELSE name

\* str.rfind("."): the position of the last dot at or before i, 0 without one
RECURSIVE rfind(_, _)
rfind(name, i) ==
    IF i = 0 THEN 0
    ELSE IF name[i] = "." THEN i
    ELSE rfind(name, i - 1)

\* pathlib: the last dot starts a suffix unless it is the first or the last
\* character of the name
HasSuffix(name) == 1 < rfind(name, Len(name)) /\ rfind(name, Len(name)) < Len(name)

\* variant: the extension is dropped
PathSuffix_Dropped(path_obj) == <<>>

\* Path(name).suffix
PathSuffix(path_obj) ==
    LET name == PathName(path_obj) IN
    IF HasSuffix(name) THEN SubSeq(name, rfind(name, Len(name)), Len(name)) ELSE <<>>

\* Path(name).stem
PathStem(path_obj) ==
    LET name == PathName(path_obj) IN
    IF HasSuffix(name) THEN SubSeq(name, 1, rfind(name, Len(name)) - 1) ELSE name

\* the names a user types: "a.t", "A.t" and "a (1).t"
TypedNames ==
    {<<"a", ".", "t">>, <<"A", ".", "t">>, <<"a", " ", "(", "1", ")", ".", "t">>}

\* f"{stem} ({counter}){suffix}"
WithCounter(name, counter) ==
    PathStem(name) \o <<" ", "(">> \o Decimal(counter) \o <<")">> \o PathSuffix(name)

\* the loop of get_unique_filename: the first counter whose name is free
RECURSIVE FirstFree(_, _, _)
FirstFree(name, existing_names, counter) ==
    IF WithCounter(name, counter) \notin existing_names
    THEN WithCounter(name, counter)
    ELSE FirstFree(name, existing_names, counter + 1)

\* variant: the counter is not advanced past a taken name
get_unique_filename_Once(name, existing_names) ==
    IF name \notin existing_names THEN name ELSE WithCounter(name, 1)

get_unique_filename(name, existing_names) ==
    IF name \notin existing_names THEN name ELSE FirstFree(name, existing_names, 1)

\* the decrypted names of the children of a directory
SiblingNames(db, parent) == {f.name : f \in {g \in db.files : g.parent = parent}}

Directories(db) == {f.id : f \in {g \in db.files : g.is_directory}}

NoCall == [op |-> "none", at |-> Root, name |-> <<>>, directory |-> FALSE,
           result |-> "none"]

VfsInit == vfs = [db |-> EmptyDb, disk |-> <<>>, nextPath |-> 1, last |-> NoCall]

\* create_directory(parent_id, name)
VfsCreateDirectory ==
    /\ vfs.db.nextFile \in FileIds
    /\ \E parent \in {Root} \cup Directories(vfs.db), name \in TypedNames :
        IF name \in SiblingNames(vfs.db, parent)
        THEN vfs' = [vfs EXCEPT !.last = [op |-> "create_directory", at |-> parent,
                                          name |-> name, directory |-> TRUE,
                                          result |-> "NameCollision"]]
        ELSE vfs' = [vfs EXCEPT !.db = SqlInsertFile(vfs.db, parent, name, TRUE).db,
                                !.last = [op |-> "create_directory", at |-> parent,
                                          name |-> name, directory |-> TRUE,
                                          result |-> "ok"]]
    /\ UNCHANGED <<names, storeVars, keyVars, repoVars, tx, sql, registry, pool, race, rd>>

\* store_prepared_block as one call: the database, the blob tree and the id
\* of the row returned
store_prepared_block(st, prepared) ==
    IF IsDedupHit(st.db, prepared)
    THEN [db |-> StoreExisting(st.db, prepared), disk |-> st.disk,
          block |-> (CHOOSE b \in BlockByHash(st.db, prepared.hash) : TRUE).id]
    ELSE [db |-> SqlInsertBlock(st.db, prepared).db, disk |-> WriteBlob(st.disk, prepared),
          block |-> st.db.nextBlock]

\* import of a one-chunk host file into a directory, under a free name
VfsImportFile ==
    /\ vfs.db.nextFile \in FileIds
    /\ \E parent \in {Root} \cup Directories(vfs.db), name \in TypedNames,
          data \in OneByteChunks, r \in Randomness :
        LET final == get_unique_filename(name, SiblingNames(vfs.db, parent))
            prepared == prepare_block(data, r.salt, r.nonce, vfs.nextPath)
            stored == store_prepared_block(vfs, prepared)
            filed == SqlInsertFile(stored.db, parent, final, FALSE).db
        IN  vfs' = [db |-> SqlInsertEdge(filed, vfs.db.nextFile, stored.block, 0).db,
                    disk |-> stored.disk,
                    nextPath |-> vfs.nextPath + 1,
                    last |-> [op |-> "import", at |-> parent, name |-> final,
                              directory |-> FALSE, result |-> "ok"]]
    /\ UNCHANGED <<names, storeVars, keyVars, repoVars, tx, sql, registry, pool, race, rd>>

\* _on_rename and rename(file_id, new_name): a name that differs from the
\* current one is asked for
VfsRename ==
    /\ \E f \in vfs.db.files, new_name \in TypedNames :
        /\ new_name # f.name
        /\ IF new_name \in SiblingNames(vfs.db, f.parent)
           THEN vfs' = [vfs EXCEPT !.last = [op |-> "rename", at |-> f.id, name |-> new_name,
                                             directory |-> f.is_directory,
                                             result |-> "NameCollision"]]
           ELSE vfs' = [vfs EXCEPT
                          !.db.files = (@ \ {f}) \cup {[f EXCEPT !.name = new_name]},
                          !.last = [op |-> "rename", at |-> f.id, name |-> new_name,
                                    directory |-> f.is_directory, result |-> "ok"]]
    /\ UNCHANGED <<names, storeVars, keyVars, repoVars, tx, sql, registry, pool, race, rd>>

\* delete_block as one call, on the database and the blob tree
delete_block(st, block) ==
    LET decremented == DecrementReference(st.db, block) IN
    IF ShouldDelete(decremented, block)
    THEN [db |-> SqlDeleteBlock(decremented, block).db,
          disk |-> delete_block_file(st.disk, BlockById(decremented, block)),
          error |-> SqlDeleteBlock(decremented, block).error]
    ELSE [db |-> decremented, disk |-> st.disk, error |-> "none"]

\* the blocks of the edges of a deleted file, released one by one; an error
\* ends the walk
RECURSIVE ReleaseAll(_, _)
ReleaseAll(st, todo) ==
    IF todo = <<>> \/ st.error # "none" THEN st
    ELSE ReleaseAll(delete_block(st, Head(todo)), Tail(todo))

\* delete(file_id) of a file: its row and edges go, its blocks are released,
\* in one transaction; an error rolls the database back
DeleteFile(st, f) ==
    LET released == ReleaseAll([db |-> SqlDeleteFile(st.db, f.id).db, disk |-> st.disk,
                                error |-> "none"],
                               OrderedBlocks(st.db, f.id, 0)) IN
    IF released.error = "none" THEN released
    ELSE [released EXCEPT !.db = st.db]

\* variant: delete(file_id) of a directory walks the files below it
DeleteDirectoryWalk(st, f) ==
    LET below == Subtree(st.db, {f.id})
        todo == {e \in st.db.edges : e.file \in below}
        RECURSIVE Walk(_, _)
        Walk(s, es) ==
            IF es = {} THEN s
            ELSE LET e == CHOOSE x \in es : TRUE IN Walk(delete_block(s, e.block), es \ {e})
    IN  Walk([db |-> SqlDeleteFile(st.db, f.id).db, disk |-> st.disk, error |-> "none"], todo)

\* delete(file_id) of a directory: the row is deleted, the rows below it and
\* their edges go by ON DELETE CASCADE
DeleteDirectory(st, f) ==
    [db |-> SqlDeleteFile(st.db, f.id).db, disk |-> st.disk, error |-> "none"]

VfsDelete ==
    /\ \E f \in vfs.db.files :
        LET done == IF f.is_directory THEN DeleteDirectory(vfs, f) ELSE DeleteFile(vfs, f) IN
        vfs' = [vfs EXCEPT !.db = done.db,
                           !.disk = done.disk,
                           !.last = [op |-> "delete", at |-> f.id, name |-> f.name,
                                     directory |-> f.is_directory,
                                     result |-> IF done.error = "none" THEN "ok" ELSE done.error]]
    /\ UNCHANGED <<names, storeVars, keyVars, repoVars, tx, sql, registry, pool, race, rd>>

VfsNext ==
    \/ VfsCreateDirectory
    \/ VfsImportFile
    \/ VfsRename
    \/ VfsDelete

(***************************************************************************)
(* The repository registry: database/database.py (GlobalDatabase) and      *)
(* ui/setup/repo_manager.py                                                *)
(***************************************************************************)
\* a repository name: the text, and the numeric suffix an import appended
\* (0: none)
RepoName(text, n) == [text |-> text, n |-> n]

\* the names a user types or a repository config file carries; "" is the
\* name field left empty
RepoNames == {RepoName("", 0), RepoName("r", 0), RepoName("R", 0)}

\* ids of the rows of one run (repositories.id, AUTOINCREMENT)
RepoIds == {1, 2, 3}

\* str.lower()
Lower(name) == [name EXCEPT !.text = IF @ = "R" THEN "r" ELSE @]

NamesOf(rows) == {r.name : r \in rows}
PathsOf(rows) == {r.path : r \in rows}

\* INSERT INTO repositories: name TEXT NOT NULL UNIQUE, path TEXT NOT NULL UNIQUE
SqlInsertRepository(reg, name, path) ==
    IF name \in NamesOf(reg.rows) \/ path \in PathsOf(reg.rows) THEN IntegrityError(reg)
    ELSE Ok([reg EXCEPT !.rows = @ \cup {[id |-> reg.nextId, name |-> name, path |-> path]},
                        !.nextId = @ + 1])

\* variant: the name column without UNIQUE
SqlRenameRepositoryNotUnique(reg, id, name) ==
    Ok([reg EXCEPT !.rows = {IF r.id = id THEN [r EXCEPT !.name = name] ELSE r : r \in @}])

\* UPDATE repositories SET name = ? WHERE id = ?: name is UNIQUE
SqlRenameRepository(reg, id, name) ==
    IF \E r \in reg.rows : r.id # id /\ r.name = name THEN IntegrityError(reg)
    ELSE Ok([reg EXCEPT !.rows = {IF r.id = id THEN [r EXCEPT !.name = name] ELSE r : r \in @}])

\* CreateRepositoryDialog._create_repository: what the dialog answers before
\* it calls create_repository
DialogError(reg, name, path, fits) ==
    IF name.text = "" THEN "error_repo_name_required"
    ELSE IF \E repo \in reg.rows : Lower(repo.name) = Lower(name) THEN "error_repo_name_exists"
    ELSE IF \E repo \in reg.rows : Resolve(repo.path) = Resolve(path) THEN "error_repo_path_exists"
    ELSE IF ~fits THEN "error_capacity_too_small"
    ELSE "none"

\* import-repository: the first numeric suffix that makes the name free
RECURSIVE FreeRepoName(_, _, _)
FreeRepoName(name, taken, n) ==
    IF RepoName(name.text, n) \notin taken THEN RepoName(name.text, n)
    ELSE FreeRepoName(name, taken, n + 1)

\* variant: the import keeps the name of the config file
ImportName_AsGiven(name, taken) == name

\* import-repository: the name the repository is registered under
ImportName(name, taken) == IF name \in taken THEN FreeRepoName(name, taken, 1) ELSE name

NoRegistryCall == [op |-> "none", name |-> RepoName("", 0), path |-> <<>>, id |-> 0,
                   error |-> "none", renamed |-> FALSE]

RegistryInit == registry = [rows |-> {}, nextId |-> 1, last |-> NoRegistryCall]

\* what a call leaves: the table after it and the record of the call
Registered(r, call) == [rows |-> r.db.rows, nextId |-> r.db.nextId, last |-> call]

\* the create dialog is confirmed; create_repository inserts the row
CreateRepository ==
    /\ registry.nextId \in RepoIds
    /\ \E name \in RepoNames, path \in RepoPaths, fits \in BOOLEAN :
        LET refused == DialogError(registry, name, path, fits)
            r == IF refused = "none" THEN SqlInsertRepository(registry, name, path)
                 ELSE [db |-> registry, error |-> refused]
        IN  registry' = Registered(r, [op |-> "create", name |-> name, path |-> path,
                                       id |-> 0, error |-> r.error, renamed |-> FALSE])
    /\ UNCHANGED <<names, storeVars, keyVars, repoVars, tx, vfs, sql, pool, race, rd>>

\* _rename_repository: a name that differs from the current one is typed
RenameRepository ==
    /\ \E repo \in registry.rows, new_name \in RepoNames \ {RepoName("", 0)} :
        /\ new_name # repo.name
        /\ LET r == SqlRenameRepository(registry, repo.id, new_name)
           IN  registry' = Registered(r, [op |-> "rename", name |-> new_name,
                                          path |-> repo.path, id |-> repo.id,
                                          error |-> r.error, renamed |-> FALSE])
    /\ UNCHANGED <<names, storeVars, keyVars, repoVars, tx, vfs, sql, pool, race, rd>>

\* import_repository: a repository config file names the repository; its
\* place on disk gives the path
ImportRepository ==
    /\ registry.nextId \in RepoIds
    /\ \E name \in RepoNames \ {RepoName("", 0)}, path \in RepoPaths :
        LET final == ImportName(name, NamesOf(registry.rows))
            r == SqlInsertRepository(registry, final, path)
        IN  registry' = Registered(r, [op |-> "import", name |-> name, path |-> path,
                                       id |-> 0, error |-> r.error,
                                       renamed |-> r.error = "none" /\ final # name])
    /\ UNCHANGED <<names, storeVars, keyVars, repoVars, tx, vfs, sql, pool, race, rd>>

\* _delete_repository
DeleteRepository ==
    /\ \E repo \in registry.rows :
        registry' = [registry EXCEPT
                       !.rows = @ \ {repo},
                       !.last = [op |-> "delete", name |-> repo.name, path |-> repo.path,
                                 id |-> repo.id, error |-> "none", renamed |-> FALSE]]
    /\ UNCHANGED <<names, storeVars, keyVars, repoVars, tx, vfs, sql, pool, race, rd>>

RegistryNext ==
    \/ CreateRepository
    \/ RenameRepository
    \/ ImportRepository
    \/ DeleteRepository

(***************************************************************************)
(* The import pipeline of one file: worker pool and committer              *)
(***************************************************************************)
\* create_file(parent_id, name, size, block_refs_in_order): the edges of a
\* new file, one per block id, in order
RECURSIVE LinkEdges(_, _, _)
LinkEdges(db, fid, ids) ==
    IF ids = <<>> THEN db
    ELSE LinkEdges(EdgeCreate(db, fid, Head(ids), NextOrder(db, fid)), fid, Tail(ids))

\* a file imported by one thread: every chunk prepared and committed in turn,
\* then the file row and its edges
RECURSIVE SequentialCommits(_, _)
SequentialCommits(st, chunks) ==
    IF chunks = <<>> THEN st
    ELSE LET stored == store_prepared_block(st, prepare_block(Head(chunks), "s1", "n1",
                                                               st.nextPath))
         IN  SequentialCommits([db |-> stored.db, disk |-> stored.disk,
                                nextPath |-> st.nextPath + 1,
                                ids |-> Append(st.ids, stored.block)],
                               Tail(chunks))

SequentialImport(st, host) ==
    LET committed == SequentialCommits([db |-> st.db, disk |-> st.disk,
                                        nextPath |-> st.nextPath, ids |-> <<>>],
                                       iter_file_blocks(host, ChunkSize))
    IN  [db |-> LinkEdges(FileCreate(committed.db, host), committed.db.nextFile, committed.ids),
         disk |-> committed.disk,
         nextPath |-> committed.nextPath]

EmptyStore == [db |-> EmptyDb, disk |-> <<>>, nextPath |-> 1]

PoolInit ==
    pool = [store |-> EmptyStore,   \* what the pipeline has committed
            alone |-> EmptyStore,   \* the same files imported by one thread
            active |-> FALSE,
            host |-> <<>>,
            prepared |-> <<>>,      \* chunk number -> result of its prepare call
            taken |-> {},           \* chunk numbers the committer was handed
            ids |-> <<>>]           \* block ids of the chunks committed so far

PoolChunks == iter_file_blocks(pool.host, ChunkSize)

\* the walker hands the chunks of a file to the worker pool
PoolDispatch ==
    /\ ~pool.active
    /\ pool.store.db.nextFile \in Offers
    /\ \E host \in HostFiles :
        pool' = [pool EXCEPT !.active = TRUE,
                             !.host = host,
                             !.prepared = <<>>,
                             !.taken = {},
                             !.ids = <<>>,
                             !.alone = SequentialImport(pool.alone, host)]
    /\ UNCHANGED <<names, storeVars, keyVars, repoVars, tx, vfs, sql, registry, race, rd>>

\* a worker finishes prepare_block on one of the chunks, whichever
PoolPrepare ==
    /\ pool.active
    /\ \E k \in (1..Len(PoolChunks)) \ DOMAIN pool.prepared, r \in Randomness :
        pool' = [pool EXCEPT
                   !.prepared = [j \in DOMAIN pool.prepared \cup {k} |->
                                    IF j = k
                                    THEN prepare_block(PoolChunks[k], r.salt, r.nonce,
                                                       pool.store.nextPath)
                                    ELSE pool.prepared[j]],
                   !.store.nextPath = @ + 1]
    /\ UNCHANGED <<names, storeVars, keyVars, repoVars, tx, vfs, sql, registry, race, rd>>

\* variant: the committer takes the results as they complete
TakenAsCompleted(ready, committed) == ready

\* the order-preserving channel: of the results that are ready, the
\* committer is handed the one of the chunk after the last one committed
TakenInChunkOrder(ready, committed) == ready \cap {committed + 1}

\* the committer: store_prepared_block on the result the channel hands over
PoolCommit ==
    /\ pool.active
    /\ \E k \in TakenInChunkOrder(DOMAIN pool.prepared \ pool.taken, Len(pool.ids)) :
        LET stored == store_prepared_block(pool.store, pool.prepared[k]) IN
        pool' = [pool EXCEPT
                   !.store.db = stored.db,
                   !.store.disk = stored.disk,
                   !.ids = Append(@, stored.block),
                   !.taken = @ \cup {k}]
    /\ UNCHANGED <<names, storeVars, keyVars, repoVars, tx, vfs, sql, registry, race, rd>>

\* the committer: every chunk is committed; the file row and its edges
PoolFinish ==
    /\ pool.active
    /\ Len(pool.ids) = Len(PoolChunks)
    /\ pool' = [pool EXCEPT
                  !.store.db = LinkEdges(FileCreate(pool.store.db, pool.host),
                                         pool.store.db.nextFile, pool.ids),
                  !.active = FALSE]
    /\ UNCHANGED <<names, storeVars, keyVars, repoVars, tx, vfs, sql, registry, race, rd>>

PoolNext ==
    \/ PoolDispatch
    \/ PoolPrepare
    \/ PoolCommit
    \/ PoolFinish

(***************************************************************************)
(* operations/block_manager.py: retrieve_block_data on a damaged store     *)
(***************************************************************************)
\* what can be wrong when a block is read; each happens at most once to a
\* stored block, so that a second change never undoes the first
Damages == {"blob missing", "ciphertext modified", "salt", "nonce", "master key"}

ReadInit == rd = [phase |-> "empty", plain |-> <<>>, block |-> None, disk |-> <<>>,
                  master_key |-> MasterKey, damage |-> {}, result |-> None]

\* a chunk is stored: its blob, and its blocks row
ReadStore ==
    /\ rd.phase = "empty"
    /\ \E data \in OneByteChunks, r \in Randomness :
        LET prepared == prepare_block(data, r.salt, r.nonce, 1) IN
        rd' = [phase |-> "stored",
               plain |-> data,
               block |-> BlockById(BlockCreate(EmptyDb, prepared), 1),
               disk |-> WriteBlob(<<>>, prepared),
               master_key |-> MasterKey,
               damage |-> {},
               result |-> None]
    /\ UNCHANGED <<names, storeVars, keyVars, repoVars, tx, vfs, sql, registry, pool, race>>

\* the blob file is removed from the blob tree
ReadLoseBlob ==
    /\ rd.phase = "stored"
    /\ rd.block.path \in DOMAIN rd.disk
    /\ rd' = [rd EXCEPT !.disk = delete_block_file(rd.disk, rd.block),
                        !.damage = @ \cup {"blob missing"}]
    /\ UNCHANGED <<names, storeVars, keyVars, repoVars, tx, vfs, sql, registry, pool, race>>

\* bytes of the blob file are changed: the encrypted data no longer has its MAC
ReadModifyBlob ==
    /\ rd.phase = "stored"
    /\ rd.block.path \in DOMAIN rd.disk
    /\ "ciphertext modified" \notin rd.damage
    /\ \E other \in OneByteChunks \ {rd.disk[rd.block.path].pt} :
        rd' = [rd EXCEPT !.disk[rd.block.path].pt = other,
                         !.damage = @ \cup {"ciphertext modified"}]
    /\ UNCHANGED <<names, storeVars, keyVars, repoVars, tx, vfs, sql, registry, pool, race>>

\* the row carries another salt or another nonce than the blob was sealed with
ReadDamageRow ==
    /\ rd.phase = "stored"
    /\ \E r \in Randomness :
        \/ /\ "salt" \notin rd.damage
           /\ r.salt # rd.block.salt
           /\ rd' = [rd EXCEPT !.block.salt = r.salt, !.damage = @ \cup {"salt"}]
        \/ /\ "nonce" \notin rd.damage
           /\ r.nonce # rd.block.nonce
           /\ rd' = [rd EXCEPT !.block.nonce = r.nonce, !.damage = @ \cup {"nonce"}]
    /\ UNCHANGED <<names, storeVars, keyVars, repoVars, tx, vfs, sql, registry, pool, race>>

\* the block manager was built with another master key
ReadOtherKey ==
    /\ rd.phase = "stored"
    /\ "master key" \notin rd.damage
    /\ \E k \in MasterKeys \ {rd.master_key} :
        rd' = [rd EXCEPT !.master_key = k, !.damage = @ \cup {"master key"}]
    /\ UNCHANGED <<names, storeVars, keyVars, repoVars, tx, vfs, sql, registry, pool, race>>

\* retrieve_block_data(block)
ReadBlock ==
    /\ rd.phase = "stored"
    /\ rd' = [rd EXCEPT !.phase = "read",
                        !.result = retrieve_block_data(rd.master_key, rd.disk, rd.block)]
    /\ UNCHANGED <<names, storeVars, keyVars, repoVars, tx, vfs, sql, registry, pool, race>>

ReadAgain ==
    /\ rd.phase = "read"
    /\ rd' = [rd EXCEPT !.phase = "empty"]
    /\ UNCHANGED <<names, storeVars, keyVars, repoVars, tx, vfs, sql, registry, pool, race>>

ReadNext ==
    \/ ReadStore
    \/ ReadLoseBlob
    \/ ReadModifyBlob
    \/ ReadDamageRow
    \/ ReadOtherKey
    \/ ReadBlock
    \/ ReadAgain

(***************************************************************************)
(* operations/block_manager.py: store_prepared_block from two callers      *)
(***************************************************************************)
Callers == {1, 2}

NoStore == [pc |-> "idle", prepared |-> None, missed |-> FALSE]

RaceInit == race = [db |-> EmptyDb, disk |-> <<>>, nextPath |-> 1,
                    calls |-> [c \in Callers |-> NoStore]]

\* prepare_block: the caller holds a PreparedBlock with a path of its own
RacePrepare(c) ==
    /\ race.calls[c].pc = "idle"
    /\ \E data \in OneByteChunks, r \in Randomness :
        race' = [race EXCEPT
                    !.calls[c] = [pc |-> "lookup",
                                  prepared |-> prepare_block(data, r.salt, r.nonce, race.nextPath),
                                  missed |-> FALSE],
                    !.nextPath = @ + 1]
    /\ UNCHANGED <<names, storeVars, keyVars, repoVars, tx, vfs, sql, registry, pool, rd>>

\* store_prepared_block: Block.get_by_hash; on a hit, increment_reference
\* and return the existing block
RaceLookup(c) ==
    /\ race.calls[c].pc = "lookup"
    /\ IF IsDedupHit(race.db, race.calls[c].prepared)
       THEN race' = [race EXCEPT !.db = StoreExisting(@, race.calls[c].prepared),
                                 !.calls[c].pc = "returned"]
       ELSE race' = [race EXCEPT !.calls[c].pc = "write",
                                 !.calls[c].missed = TRUE]
    /\ UNCHANGED <<names, storeVars, keyVars, repoVars, tx, vfs, sql, registry, pool, rd>>

\* store_prepared_block: the encrypted data is written at relative_path
RaceWriteBlob(c) ==
    /\ race.calls[c].pc = "write"
    /\ race' = [race EXCEPT !.disk = WriteBlob(@, race.calls[c].prepared),
                            !.calls[c].pc = "insert"]
    /\ UNCHANGED <<names, storeVars, keyVars, repoVars, tx, vfs, sql, registry, pool, rd>>

\* store_prepared_block: Block.create, an INSERT INTO blocks; on a hash that
\* has a row by now the statement raises and the call ends with the exception
RaceInsert(c) ==
    /\ race.calls[c].pc = "insert"
    /\ LET r == SqlInsertBlock(race.db, race.calls[c].prepared) IN
        race' = [race EXCEPT !.db = r.db,
                             !.calls[c].pc = IF r.error = "none" THEN "returned" ELSE "raised"]
    /\ UNCHANGED <<names, storeVars, keyVars, repoVars, tx, vfs, sql, registry, pool, rd>>

RaceNext == \E c \in Callers :
    \/ RacePrepare(c)
    \/ RaceLookup(c)
    \/ RaceWriteBlob(c)
    \/ RaceInsert(c)

(***************************************************************************)
(* ui/setup/pin_change.py: the PIN change dialog                           *)
(***************************************************************************)
\* what the user may type as the current PIN, and as the new PIN and its
\* confirmation
CurrentPinsTyped == Pins \cup {""}
NewPinsTyped == Pins \cup {"12"}

\* variant: the confirmation is not compared with the new PIN
ChangeError_NoConfirm(d, current_pin, new_pin, confirm_pin) ==
    IF current_pin = "" THEN "error_current_pin_required"
    ELSE IF Len(new_pin) < 4 THEN "error_new_pin_min_length"
    ELSE IF current_pin = new_pin THEN "error_new_pin_same_as_current"
    ELSE IF "returned" \notin DOMAIN VerifyAttempt(d, current_pin) THEN "error_pin_invalid"
    ELSE "none"

\* _on_change up to the encryption: the error shown, "none" when the inputs
\* are valid and the current PIN decrypts the key with the stored hash
ChangeError(d, current_pin, new_pin, confirm_pin) ==
    IF current_pin = "" THEN "error_current_pin_required"
    ELSE IF Len(new_pin) < 4 THEN "error_new_pin_min_length"
    ELSE IF new_pin # confirm_pin THEN "error_new_pin_mismatch"
    ELSE IF current_pin = new_pin THEN "error_new_pin_same_as_current"
    ELSE IF "returned" \notin DOMAIN VerifyAttempt(d, current_pin) THEN "error_pin_invalid"
    ELSE "none"

\* _on_change: the change button of the dialog, opened from the main window;
\* on valid input the key is encrypted under the new PIN and the three
\* setters are due
PinChange ==
    /\ app.pc = "main"
    /\ \E current_pin \in CurrentPinsTyped, new_pin \in NewPinsTyped, confirm_pin \in NewPinsTyped :
        LET error == ChangeError(cfgData, current_pin, new_pin, confirm_pin)
            decrypted_key ==
                decrypt_master_key(GetBytes(cfgData, "encrypted_master_key"), current_pin,
                                   GetBytes(cfgData, "master_key_salt"),
                                   GetBytes(cfgData, "master_key_nonce"))
        IN
        /\ keyHist' = [keyHist EXCEPT
                         !.change = [current_pin |-> current_pin, new_pin |-> new_pin,
                                     confirm_pin |-> confirm_pin, error |-> error]]
        /\ IF error # "none"
           THEN app' = app
           ELSE \E r \in Randomness :
                LET e == encrypt_master_key(decrypted_key.returned, new_pin, r) IN
                app' = [app EXCEPT
                          !.pc = "setters",
                          !.flow = "change",
                          !.fresh = [key |-> decrypted_key.returned, pin |-> new_pin],
                          !.todo = << [key |-> "encrypted_master_key", value |-> Hex(e.ciphertext)],
                                      [key |-> "master_key_salt", value |-> Hex(e.salt)],
                                      [key |-> "master_key_nonce", value |-> Hex(e.nonce)] >>]
    /\ UNCHANGED <<cfgFile, cfgData, storeVars, repoVars, tx, moreVars>>

PinNext ==
    \/ KeyNext
    \/ PinChange

(***************************************************************************)
(* ui/setup/repo_manager.py: the capacity of a repository                  *)
(***************************************************************************)
\* the capacities the input dialog may return (any value from its minimum up)
Capacities == Quotas

\* _change_capacity: the value entered, when it differs from the current
\* one, becomes the repository's max_capacity
ChangeCapacity ==
    /\ pc = "idle"
    /\ \E new_capacity \in Capacities :
        /\ new_capacity # quota
        /\ quota' = new_capacity
    /\ UNCHANGED <<work, cdb, disk, depth, pc, nextPath, ops, imp, del, faults, lastFail, log, outside>>

CapacityNext ==
    \/ Next
    \/ ChangeCapacity

(***************************************************************************)
(* utils/file_utils.py: get_unique_filename on the names of a destination  *)
(***************************************************************************)
\* the characters of the names that are asked for, and their longest length
NameChars == {"a", "."}
MaxNameLen == 3

\* the names that are asked for: "", "a", ".", "a.a", "..a", ...
FileNames == UNION {[1..n -> NameChars] : n \in 0..MaxNameLen}

\* the most names a destination holds
MaxNames == 3

\* the names that matter to a call for name: the name, the names the loop
\* may try, and one that has nothing to do with it
NamePool(name) ==
    {name, <<"b">>} \cup {WithCounter(name, counter) : counter \in 1..MaxNames}

NoNameCall == [existing_names |-> {}, result |-> <<>>, called |-> FALSE]

NamesInit == names = [asked |-> None, existing |-> {}, last |-> NoNameCall]

\* a file is to be stored under a name
AskName ==
    /\ names.asked = None
    /\ \E name \in FileNames : names' = [names EXCEPT !.asked = Some(name)]
    /\ UNCHANGED <<storeVars, keyVars, repoVars, tx, vfs, sql, registry, pool, race, rd>>

\* a file of that name is put into the destination by other means
TakeName ==
    /\ names.asked # None
    /\ Cardinality(names.existing) < MaxNames
    /\ \E name \in NamePool(names.asked.some) \ names.existing :
        names' = [names EXCEPT !.existing = @ \cup {name}, !.last = NoNameCall]
    /\ UNCHANGED <<storeVars, keyVars, repoVars, tx, vfs, sql, registry, pool, race, rd>>

\* a file leaves the destination
ReleaseName ==
    /\ \E name \in names.existing :
        names' = [names EXCEPT !.existing = @ \ {name}, !.last = NoNameCall]
    /\ UNCHANGED <<storeVars, keyVars, repoVars, tx, vfs, sql, registry, pool, race, rd>>

\* get_unique_filename(name, existing_names); the file is then stored
\* under the name returned, while there is room
UniqueName ==
    /\ names.asked # None
    /\ LET result == get_unique_filename(names.asked.some, names.existing) IN
        names' = [names EXCEPT
                    !.existing = IF Cardinality(@) < MaxNames THEN @ \cup {result} ELSE @,
                    !.last = [existing_names |-> names.existing, result |-> result,
                              called |-> TRUE]]
    /\ UNCHANGED <<storeVars, keyVars, repoVars, tx, vfs, sql, registry, pool, race, rd>>

NamesNext ==
    \/ AskName
    \/ TakeName
    \/ ReleaseName
    \/ UniqueName

(***************************************************************************)
(* Specifications                                                          *)
(***************************************************************************)
Init ==
    /\ StoreInit
    /\ KeyInit
    /\ RepoInit
    /\ TxInit
    /\ SqlInit
    /\ VfsInit
    /\ RegistryInit
    /\ PoolInit
    /\ RaceInit
    /\ ReadInit
    /\ NamesInit

\* the block store under imports, deletes, cancel requests, failing inserts
\* and process kills
Spec == Init /\ [][Next]_vars

\* what the walker, the workers and the committer do on their own
PipelineStep ==
    \/ BeginProcessing
    \/ PrepareBlock
    \/ StopOnCancel
    \/ CompleteOperation
    \/ BeginFile
    \/ QuotaExceeded
    \/ StoreLookup
    \/ StoreInsert
    \/ StoreInsertRaises
    \/ ChunkDone
    \/ CreateFileRow
    \/ CreateEdges
    \/ FileDone

NextLive ==
    \/ CreateOperation
    \/ Cancel
    \/ PipelineStep
    \/ BeginDelete
    \/ ReleaseDecrement
    \/ ReleaseUnlink
    \/ ReleaseRow
    \/ DeleteDone

\* the block store in a process that is not killed, its pipeline threads
\* scheduled fairly
SpecLive == Init /\ [][NextLive]_vars /\ WF_vars(PipelineStep)

\* the master key, the PIN and config.json
\* the block store of a repository whose capacity the user may change
SpecCapacity == Init /\ [][CapacityNext]_vars

SpecKey == Init /\ [][KeyNext]_vars

\* get_unique_filename against the names of one destination
SpecNames == Init /\ [][NamesNext]_vars

\* the same, with the PIN change dialog of the main window
SpecPin == Init /\ [][PinNext]_vars

\* the module's current repository database
SpecRepoDb == Init /\ [][RepoNext]_vars

\* nested transaction() blocks
SpecTxn == Init /\ [][TxnNext]_vars
SpecTxnConn == Init /\ [][TxnConnNext]_vars

\* the repository schema under single statements
SpecSchema == Init /\ [][SchemaNext]_vars

\* the virtual file tree under create_directory, import, rename and delete
SpecVfs == Init /\ [][VfsNext]_vars

\* the repository registry under create, rename, import-repository and delete
SpecRegistry == Init /\ [][RegistryNext]_vars

\* one file after the other through the worker pool and the committer
SpecPool == Init /\ [][PoolNext]_vars

\* two callers of store_prepared_block, statement by statement
SpecRace == Init /\ [][RaceNext]_vars

\* retrieve_block_data on a stored block whose blob, row or key was damaged
SpecRead == Init /\ [][ReadNext]_vars

(***************************************************************************)
(* Properties                                                              *)
(***************************************************************************)
Idle == pc = "idle"

ChunksOf(host) == iter_file_blocks(host, ChunkSize)

HashesOf(host) == {compute_block_hash(ChunksOf(host)[k]) : k \in 1..Len(ChunksOf(host))}

\* how many chunks of the host file have hash h
Occurrences(host, h) ==
    Cardinality({k \in 1..Len(ChunksOf(host)) : compute_block_hash(ChunksOf(host)[k]) = h})

\* the chunks of a host file, each as the result of a successful read
HostChunksReturned(host) == [k \in 1..Len(ChunksOf(host)) |-> Returned(ChunksOf(host)[k])]

RefcountsMatchEdges(db) == \A b \in db.blocks : b.rc = EdgeCount(db, b.id)

BlobsMatchRows(db, dsk) ==
    /\ DOMAIN dsk = {b.path : b \in db.blocks}
    /\ \A b \in db.blocks : b.path \in DOMAIN dsk /\ CipherLen(dsk[b.path]) = b.size

EdgesHaveFiles(db) == \A e \in db.edges : \E f \in db.files : f.id = e.file

\* every file row has exactly the edges 0..n-1 of its n chunks, every edge has its file row
AllOrNothing(db) ==
    /\ EdgesHaveFiles(db)
    /\ \A f \in db.files :
        /\ {e.order : e \in EdgesOf(db, f.id)} = 0..(Len(ChunksOf(f.src)) - 1)
        /\ Cardinality(EdgesOf(db, f.id)) = Len(ChunksOf(f.src))

\* the run so far: the same host file imported twice, nothing else, no fault
TwoImportsOfSameFile ==
    /\ faults = {}
    /\ Len(log) >= 2
    /\ log[1].kind = "import"
    /\ log[2].kind = "import"
    /\ log[1].src = log[2].src

\* C1: after completed imports and deletes (no failed or killed operation) every
\* blocks row's reference_count equals the number of file_blocks rows that
\* reference it.
C1_RefcountEqualsEdges ==
    (Idle /\ faults = {}) => RefcountsMatchEdges(work) /\ RefcountsMatchEdges(cdb)

C1_Witness ==
    /\ Idle
    /\ faults = {}
    /\ \E k \in 1..Len(log) : log[k].kind = "delete"
    /\ \E b \in work.blocks : b.rc >= 2 /\ b.rc = EdgeCount(work, b.id)

\* C2: between store_prepared_block / delete_block calls (no process kill) the
\* blobs on disk are exactly the relative_path values of the blocks rows, each
\* with its row's stored size.
C2_BlobsExactlyRows ==
    (Idle /\ faults \subseteq {"insert"}) => BlobsMatchRows(work, disk)

\* C3: after a kill in the middle of an import and the restart, refcounts equal
\* edge counts, every edge has its file, every row its blob and every blob its row.
C3_KilledImportLeavesConsistentStore ==
    (Idle /\ faults = {"kill_import"}) =>
        /\ RefcountsMatchEdges(work)
        /\ EdgesHaveFiles(work)
        /\ BlobsMatchRows(work, disk)

C5_TwiceGivesCeilBlocksRefcount2 ==
    (Idle /\ TwoImportsOfSameFile /\ Len(log) = 2) =>
        /\ Cardinality(work.blocks) = count_file_blocks(log[1].src, ChunkSize)
        /\ Cardinality(work.files) = 2
        /\ \A b \in work.blocks : b.rc = 2

\* C5 amended: the same file imported twice gives one blocks row per distinct
\* chunk, two file rows, and on every block a reference_count of twice the
\* number of chunks of the file with its hash; the file has
\* ceil(size/chunk_size) chunks.
C5_TwiceGivesDistinctChunkBlocks ==
    (Idle /\ TwoImportsOfSameFile /\ Len(log) = 2) =>
        /\ Len(ChunksOf(log[1].src)) = count_file_blocks(log[1].src, ChunkSize)
        /\ {b.hash : b \in work.blocks} = HashesOf(log[1].src)
        /\ Cardinality(work.blocks) = Cardinality(HashesOf(log[1].src))
        /\ Cardinality(work.files) = 2
        /\ \A b \in work.blocks : b.rc = 2 * Occurrences(log[1].src, b.hash)

C5_Witness ==
    /\ Idle
    /\ TwoImportsOfSameFile
    /\ Len(log) = 2
    /\ count_file_blocks(log[1].src, ChunkSize) >= 2
    /\ \A b \in work.blocks : b.rc = 2

OneOfTwoDeleted ==
    TwoImportsOfSameFile /\ Len(log) = 3 /\ log[3].kind = "delete"

BothOfTwoDeleted ==
    TwoImportsOfSameFile /\ Len(log) = 4 /\ log[3].kind = "delete" /\ log[4].kind = "delete"

\* C6 as stated: deleting one of two identical files brings every block to
\* reference_count 1 and keeps rows and blobs; deleting the second removes
\* every row, blob and edge.
C6_DeleteOneLeavesRefcount1 ==
    /\ (Idle /\ OneOfTwoDeleted) =>
        /\ \A b \in work.blocks : b.rc = 1
        /\ {b.hash : b \in work.blocks} = HashesOf(log[1].src)
        /\ BlobsMatchRows(work, disk)
    /\ (Idle /\ BothOfTwoDeleted) =>
        work.blocks = {} /\ DOMAIN disk = {} /\ work.edges = {}

\* C6 amended: deleting one of two identical files brings every block to a
\* reference_count equal to the number of chunks of the file with its hash (1
\* when the chunk occurs once) and keeps rows and blobs; deleting the second
\* removes every row, blob and edge.
C6_DeleteOneLeavesRemainingEdges ==
    /\ (Idle /\ OneOfTwoDeleted) =>
        /\ \A b \in work.blocks : b.rc = Occurrences(log[1].src, b.hash)
        /\ {b.hash : b \in work.blocks} = HashesOf(log[1].src)
        /\ BlobsMatchRows(work, disk)
    /\ (Idle /\ BothOfTwoDeleted) =>
        work.blocks = {} /\ DOMAIN disk = {} /\ work.edges = {}

C6_Witness ==
    /\ Idle
    /\ BothOfTwoDeleted
    /\ Len(ChunksOf(log[1].src)) >= 2
    /\ work.blocks = {}
    /\ DOMAIN disk = {}

\* C7: in every committed state a file has its row and all its edges, or
\* neither a row nor an edge.
C7_FileAndEdgesAtomic == AllOrNothing(cdb)

C7_Witness ==
    /\ Idle
    /\ op.status = "failed"
    /\ faults # {}
    /\ \E f \in cdb.files : Cardinality(EdgesOf(cdb, f.id)) >= 2

\* C8: after store_prepared_block raised following the blob write, no blocks
\* row has the prepared hash, no blob is at the prepared path, and the disk is
\* as before the call.
C8_FailedStoreLeavesNoTrace ==
    (lastFail # None) =>
        /\ BlockByHash(work, lastFail.prep.hash) = {}
        /\ lastFail.prep.relative_path \notin DOMAIN disk
        /\ disk = lastFail.diskBefore

\* C9: after an import ended with a fatal error, the operation record is
\* failed with an error text, the unfinished file has no row and no edge, and
\* every reference_count equals its edge count.
C9_FailedImportKeepsRefcounts ==
    (Idle /\ op.status = "failed" /\ faults = {"insert"}) =>
        /\ op.error # ""
        /\ AllOrNothing(work)
        /\ Cardinality({k \in 1..Len(log) : log[k].kind = "import"}) = work.nextFile - 1
        /\ RefcountsMatchEdges(work)

\* C10: no committed state, and no state between operations or after a kill,
\* has a blocks row with reference_count 0.
C10_NoZeroRefcountRow ==
    /\ \A b \in cdb.blocks : b.rc >= 1
    /\ pc \in {"idle", "down"} => \A b \in work.blocks : b.rc >= 1

\* a release has brought a count to zero inside the open transaction
C10_Witness ==
    /\ pc = "delrow"
    /\ BlockById(work, Head(del.todo)).rc = 0
    /\ BlockById(cdb, Head(del.todo)).rc = 1

\* C11: after a completed first-time setup with PIN P, unlocking with P yields
\* the master key that was set up, and unlocking with any other PIN fails with
\* a crypto failure and yields no master key.
C11_UnlockOnlyWithSetupPin ==
    (keyHist.setup # None /\ keyHist.unlock # None) =>
        /\ keyHist.setup.pin \notin keyHist.rejected
        /\ IF keyHist.unlock.pin = keyHist.setup.pin
           THEN /\ keyHist.unlock.result = Returned(keyHist.setup.key)
                /\ app.master_key = Some(keyHist.setup.key)
           ELSE /\ keyHist.unlock.result = CryptoError
                /\ app.master_key = None

\* another PIN was rejected, then the PIN of the setup unlocked the key
C11_Witness ==
    /\ keyHist.setup # None
    /\ keyHist.unlock # None
    /\ keyHist.unlock.pin = keyHist.setup.pin
    /\ keyHist.rejected # {}
    /\ app.pc = "unlocked"
    /\ app.master_key = Some(keyHist.setup.key)

\* a step of the committer on a new chunk that does not fit the quota
QuotaOverflowStep ==
    /\ pc = "commit"
    /\ ~IsDedupHit(work, imp.prep)
    /\ UsedBytes(work) + CipherLen(imp.prep.encrypted_data) > quota
    /\ pc' \notin {"commit", "down"}

\* C12: when the next new block would bring the used bytes over the quota the
\* import fails with QuotaExceeded, and the chunk causes no new blocks row, no
\* new blob and no reference_count change.
C12_QuotaOverflowFailsCleanly ==
    [][QuotaOverflowStep =>
        /\ ops'[Len(ops')].status = "failed"
        /\ ops'[Len(ops')].error = "QuotaExceeded"
        /\ work'.blocks = work.blocks
        /\ cdb'.blocks = cdb.blocks
        /\ disk' = disk]_vars

\* an import ended on the quota with the store exactly full
C12_Witness ==
    /\ Idle
    /\ op.status = "failed"
    /\ op.error = "QuotaExceeded"
    /\ UsedBytes(work) = quota
    /\ faults = {"quota"}
    /\ BlobsMatchRows(work, disk)

\* C13: the stored sizes of the blocks rows never add up to more than the
\* quota, and a chunk that is a dedup hit is never rejected for the quota.
C13_UsedNeverExceedsQuota ==
    /\ UsedBytes(work) <= quota
    /\ UsedBytes(cdb) <= quota
    /\ (pc = "commit" /\ IsDedupHit(work, imp.prep)) => ~ENABLED QuotaExceeded

\* a dedup hit was committed into a store that is exactly full
C13_Witness ==
    /\ pc = "stored"
    /\ UsedBytes(work) = quota
    /\ BlockById(work, imp.ids[Len(imp.ids)]).rc >= 2
    /\ "quota" \in faults

\* the block_order values of every file are 0..n-1, each once
EdgeOrdersDense(db) ==
    \A f \in db.files :
        /\ {e.order : e \in EdgesOf(db, f.id)} = 0..(Cardinality(EdgesOf(db, f.id)) - 1)
        /\ \A e1, e2 \in EdgesOf(db, f.id) : e1.order = e2.order => e1 = e2

\* C14: the block_order values of the edges of every file are exactly 0..n-1,
\* each once, and edges are inserted in increasing block_order from 0 (an
\* edge inserted for a file row that is there; the rollback of a delete
\* brings a file row back together with its edges).
C14_EdgeOrderDense ==
    [][/\ EdgeOrdersDense(work)
       /\ EdgeOrdersDense(cdb)
       /\ EdgeOrdersDense(work')
       /\ EdgeOrdersDense(cdb')
       /\ \A e \in work'.edges \ work.edges :
            (\E f \in work.files : f.id = e.file) =>
                e.order = Cardinality(EdgesOf(work, e.file))]_vars

\* the second of two edges is about to be inserted
C14_Witness ==
    /\ pc = "edges"
    /\ Len(imp.ids) = 2
    /\ {e.order : e \in EdgesOf(work, work.nextFile - 1)} = {0}
    /\ \E f \in cdb.files : {e.order : e \in EdgesOf(cdb, f.id)} = {0, 1}

\* C15: the startup scan leaves no row in processing or cancelling: each such
\* row becomes failed with error 'interrupted', and the rows that were
\* pending, completed or failed are unchanged.
C15_StartupScanFailsInterrupted ==
    [][(pc = "down" /\ pc' = "idle") =>
        /\ Len(ops') = Len(ops)
        /\ \A i \in 1..Len(ops) :
            /\ ops'[i].status \notin {"processing", "cancelling"}
            /\ ops[i].status \in {"processing", "cancelling"} =>
                ops'[i] = [ops[i] EXCEPT !.status = "failed", !.error = "interrupted"]
            /\ ops[i].status \in {"pending", "completed", "failed"} => ops'[i] = ops[i]]_vars

\* a kill during the second operation: the scan failed it and kept the first
C15_Witness ==
    /\ Idle
    /\ Len(ops) = 2
    /\ ops[1].status = "completed"
    /\ ops[2].status = "failed"
    /\ ops[2].error = "interrupted"
    /\ faults = {"kill_import"}

\* C16: once the committer sees the status cancelling at a file boundary it
\* inserts no further file row; a file in progress when the cancel arrives
\* is completed with all its edges or contributes nothing; prepared chunks
\* that are dropped leave no blob and no row.
C16_CancelStopsAtFileBoundary ==
    [][/\ pc \in {"commit", "written", "stored", "link", "edges", "filedone"} =>
            imp.seen = "processing"
       /\ (pc = "boundary" /\ op.status = "cancelling" /\ pc' \notin {"boundary", "down"}) =>
            /\ pc' = "idle"
            /\ work' = work
            /\ cdb' = cdb
            /\ disk' = disk
       /\ AllOrNothing(cdb)
       /\ AllOrNothing(cdb')]_vars

\* an import of two files was cancelled during the first: the first is
\* stored whole, the chunk prepared for the second was dropped
C16_Witness ==
    /\ Idle
    /\ faults = {"cancel_drop"}
    /\ Len(ops) = 1
    /\ op.total = 2
    /\ op.status = "failed"
    /\ op.error = "interrupted"
    /\ Cardinality(work.files) = 1
    /\ \E f \in work.files : Cardinality(EdgesOf(work, f.id)) = 2
    /\ BlobsMatchRows(work, disk)

FailedSwitch ==
    /\ lastGet.outcome = "raised"
    /\ lastGet.arg # None
    /\ lastGet.currentRepoPath # Some(Resolve(lastGet.arg.some))

\* C18: when get_repository_database(p) is called for another repository and
\* the connect raises, the exception reaches the caller, _repo_db and
\* _current_repo_path are as before the call and the previous connection is
\* still open.
C18_FailedSwitchKeepsCurrent ==
    FailedSwitch =>
        /\ repoDb = lastGet.repoDb
        /\ currentRepoPath = lastGet.currentRepoPath
        /\ openConns = lastGet.openConns
        /\ (repoDb # None /\ repoDb.connection # None) =>
            repoDb.connection.some \in openConns

\* a repository was open when the switch to an unreachable one failed
C18_Witness ==
    /\ FailedSwitch
    /\ repoDb # None
    /\ repoDb.connection # None
    /\ currentRepoPath # None
    /\ repoDb.connection.some \in openConns

\* C19: for any nesting of transaction() blocks on an open connection, the
\* commit is issued exactly once, when the outermost block exits normally; an
\* exception out of the outermost block gives exactly one rollback and no
\* commit; the exit of an inner block issues neither.
C19_OutermostCommitsOnce ==
    /\ depth = tx.open
    /\ tx.open > 0 => tx.commits = 0 /\ tx.rollbacks = 0
    /\ (tx.open = 0 /\ tx.last = "normal") =>
        tx.commits = 1 /\ tx.rollbacks = 0 /\ tx.pending = {}
    /\ (tx.open = 0 /\ tx.last = "raised") =>
        tx.commits = 0 /\ tx.rollbacks = 1 /\ tx.pending = {}

\* an exception left three nested blocks and was rolled back once
C19_Witness ==
    /\ tx.open = 0
    /\ tx.last = "raised"
    /\ tx.deepest >= 3
    /\ tx.rollbacks = 1
    /\ tx.commits = 0
    /\ tx.durable # {}

\* C20: after a crash during a config write config.json is the complete
\* previous document or the complete new document, never a truncated or
\* empty file.
C20_ConfigWriteIsAtomic ==
    (app.pc = "off" /\ keyHist.cut) => cfgFile \in {keyHist.prevFile, keyHist.newFile}

UniqueHashes(db) == \A b1, b2 \in db.blocks : b1.hash = b2.hash => b1 = b2

\* a step in which store_prepared_block returns on a hash that has a row
DedupCommitStep ==
    /\ pc = "commit"
    /\ BlockByHash(work, imp.prep.hash) # {}
    /\ pc' = "stored"

\* C21: under the single writer no two blocks rows have the same hash, and a
\* commit of a chunk whose hash has a row resolves to that row and adds none.
C21_OneRowPerHash ==
    /\ [](UniqueHashes(work) /\ UniqueHashes(cdb))
    /\ [][DedupCommitStep =>
            /\ BlockByHash(work, imp.prep.hash)
                 = {BlockById(work, imp'.ids[Len(imp'.ids)])}
            /\ BlockById(work', imp'.ids[Len(imp'.ids)]).hash = imp.prep.hash
            /\ {b.id : b \in work'.blocks} = {b.id : b \in work.blocks}]_vars

\* a release removed the row of a hash, the hash was stored again under a
\* new row, and a further chunk was committed onto that row
C21_Witness ==
    /\ pc = "stored"
    /\ \E k \in 1..Len(log) : log[k].kind = "delete"
    /\ imp.ids[Len(imp.ids)] >= 2
    /\ BlockById(work, imp.ids[Len(imp.ids)]).hash = imp.prep.hash
    /\ BlockById(work, imp.ids[Len(imp.ids)]).rc >= 2

\* no blocks row, as seen through the connection, is without its blob
RowsHaveBlobs(db, dsk) == \A b \in db.blocks : b.path \in DOMAIN dsk

\* C24: a release that brings a reference_count to zero deletes the blocks
\* row first and the blob second: a blob is unlinked only when no row names
\* it any more, and no state has a row whose blob is missing.
C24_RowDeletedBeforeBlob ==
    /\ []RowsHaveBlobs(work, disk)
    /\ [][\A b \in work.blocks : b.path \in DOMAIN disk => b.path \in DOMAIN disk']_vars

\* C25: a commit of a chunk whose hash has a row finds the row with
\* reference_count >= 1, leaves it with one more, writes no blob, inserts no
\* row, changes no other row, and returns the existing row.
C25_DedupCommitFrame ==
    [][DedupCommitStep =>
        LET b == CHOOSE x \in BlockByHash(work, imp.prep.hash) : TRUE IN
        /\ b.rc >= 1
        /\ work'.blocks = (work.blocks \ {b}) \cup {[b EXCEPT !.rc = b.rc + 1]}
        /\ work'.nextBlock = work.nextBlock
        /\ work'.files = work.files
        /\ work'.edges = work.edges
        /\ disk' = disk
        /\ nextPath' = nextPath
        /\ imp'.ids = Append(imp.ids, b.id)]_vars

\* a chunk was committed onto a row whose blob was written under another
\* salt, in a store that holds another row and blob
C25_Witness ==
    /\ pc = "stored"
    /\ Cardinality(work.blocks) >= 2
    /\ Cardinality(DOMAIN disk) >= 2
    /\ BlockByHash(work, imp.prep.hash) # {}
    /\ BlockById(work, imp.ids[Len(imp.ids)]).salt # imp.prep.salt
    /\ BlockById(work, imp.ids[Len(imp.ids)]).rc = 3
    /\ imp.prep.relative_path \notin DOMAIN disk

\* every edge has its files row and its blocks row, every row its parent
ReferencesResolve(db) ==
    /\ \A e \in db.edges :
        /\ e.file \in {f.id : f \in db.files}
        /\ e.block \in {b.id : b \in db.blocks}
    /\ \A f \in db.files : f.parent = Root \/ f.parent \in {g.id : g \in db.files}

\* C27: with foreign keys enforced every file_blocks row references an
\* existing files row and an existing blocks row; a blocks row is never
\* removed while an edge references it (the statement fails and changes
\* nothing), and removing a files row removes its edges and the rows below it.
C27_ForeignKeysEnforced ==
    /\ []ReferencesResolve(sql.db)
    /\ [][/\ \A b \in sql.db.blocks :
                b.id \notin {x.id : x \in sql'.db.blocks} => ReferencingEdges(sql.db, b.id) = {}
          /\ sql'.last.error # "none" => sql'.db = sql.db
          /\ \A f \in sql.db.files :
                f.id \notin {x.id : x \in sql'.db.files} =>
                    \A g \in Subtree(sql.db, {f.id}) :
                        /\ g \notin {x.id : x \in sql'.db.files}
                        /\ \A e \in sql'.db.edges : e.file # g]_vars

\* a files row went with the row below it and its edge; the DELETE of a
\* blocks row that an edge still holds was refused
C27_Witness ==
    /\ sql.last.stmt = "delete_block"
    /\ sql.last.error = "sqlite3.IntegrityError"
    /\ sql.db.nextFile = 4
    /\ Cardinality(sql.db.files) = 1
    /\ Cardinality(sql.db.edges) = 1
    /\ Cardinality(sql.db.blocks) = 2

SiblingsUnique(db) ==
    \A f, g \in db.files : (f.parent = g.parent /\ f.name = g.name) => f.id = g.id

\* the names a create_directory or rename of this step must not take
NamesInTheWay ==
    IF vfs'.last.op = "create_directory"
    THEN SiblingNames(vfs.db, vfs'.last.at)
    ELSE SiblingNames(vfs.db, (CHOOSE f \in vfs.db.files : f.id = vfs'.last.at).parent)

\* C22: no two children of one parent have the same name, compared case
\* sensitively; a create_directory or rename onto a sibling's name fails with
\* NameCollision and leaves the tree unchanged, any other one succeeds.
C22_SiblingNamesUnique ==
    /\ []SiblingsUnique(vfs.db)
    /\ [][vfs'.last.op \in {"create_directory", "rename"} =>
            IF vfs'.last.name \in NamesInTheWay
            THEN vfs'.last.result = "NameCollision" /\ vfs'.db = vfs.db /\ vfs'.disk = vfs.disk
            ELSE /\ vfs'.last.result = "ok"
                 /\ \E f \in vfs'.db.files : f.name = vfs'.last.name]_vars

\* "a.t", "A.t" and "a (1).t" are siblings, the last one named by an import
\* of "a.t", and a rename onto one of them was refused
C22_Witness ==
    /\ vfs.last.op = "rename"
    /\ vfs.last.result = "NameCollision"
    /\ \E parent \in {Root} \cup Directories(vfs.db) :
        /\ TypedNames \subseteq SiblingNames(vfs.db, parent)
        /\ \E f \in vfs.db.files : f.parent = parent /\ f.is_directory

\* C26: deleting a directory releases the block of every edge of every file
\* below it and removes the rows and edges below it: afterwards a block that
\* only deleted files referenced is gone with its blob, and every other
\* block's reference_count equals its edge count.
C26_DirectoryDeleteReleasesBlocks ==
    (vfs.last.op = "delete" /\ vfs.last.directory) =>
        /\ \A f \in vfs.db.files : f.parent = Root \/ f.parent \in {g.id : g \in vfs.db.files}
        /\ EdgesHaveFiles(vfs.db)
        /\ \A b \in vfs.db.blocks : EdgeCount(vfs.db, b.id) >= 1
        /\ RefcountsMatchEdges(vfs.db)
        /\ BlobsMatchRows(vfs.db, vfs.disk)

\* C23: no two rows of the registry share a name and no two share a path; a
\* create whose name or path is registered fails and leaves the registry
\* unchanged; an import-repository whose path is registered fails, and one
\* whose name is taken registers the repository under a free suffixed name
\* and reports the renaming.
C23_RegistryNamesAndPathsUnique ==
    /\ [](\A r1, r2 \in registry.rows :
            (r1.name = r2.name \/ r1.path = r2.path) => r1 = r2)
    /\ [][/\ (/\ registry'.last.op = "create"
              /\ \/ registry'.last.name \in NamesOf(registry.rows)
                 \/ registry'.last.path \in PathsOf(registry.rows))
               => registry'.last.error # "none" /\ registry'.rows = registry.rows
          /\ registry'.last.op = "import" =>
               IF registry'.last.path \in PathsOf(registry.rows)
               THEN registry'.last.error # "none" /\ registry'.rows = registry.rows
               ELSE /\ registry'.last.error = "none"
                    /\ registry'.last.renamed = (registry'.last.name \in NamesOf(registry.rows))
                    /\ \E row \in registry'.rows \ registry.rows :
                        /\ registry'.rows = registry.rows \cup {row}
                        /\ row.path = registry'.last.path
                        /\ row.name.text = registry'.last.name.text
                        /\ row.name \notin NamesOf(registry.rows)
                        /\ registry'.last.renamed = (row.name.n > 0)]_vars

\* an import was registered under a second suffix, its name and the first
\* suffix being taken
C23_Witness ==
    /\ registry.last.op = "import"
    /\ registry.last.renamed
    /\ Cardinality(registry.rows) = 3
    /\ \E r \in registry.rows : r.name.n = 2

\* blocks rows without salt, nonce and blob path
Contents(db) == {[id |-> b.id, hash |-> b.hash, size |-> b.size, rc |-> b.rc] : b \in db.blocks}

\* C28: whatever the order in which the prepare calls of a file complete,
\* the edge with block_order k references the block with the hash of chunk
\* k, and blocks, files and file_blocks are as after an import by one thread,
\* up to salts, nonces and blob paths.
C28_CompletionOrderDoesNotMatter ==
    ~pool.active =>
        /\ \A f \in pool.store.db.files :
            /\ Len(OrderedBlocks(pool.store.db, f.id, 0)) = Len(ChunksOf(f.src))
            /\ \A k \in 1..Len(ChunksOf(f.src)) :
                BlockById(pool.store.db, OrderedBlocks(pool.store.db, f.id, 0)[k]).hash
                    = compute_block_hash(ChunksOf(f.src)[k])
        /\ Contents(pool.store.db) = Contents(pool.alone.db)
        /\ pool.store.db.files = pool.alone.db.files
        /\ pool.store.db.edges = pool.alone.db.edges
        /\ Cardinality(DOMAIN pool.store.disk) = Cardinality(DOMAIN pool.alone.disk)
        /\ \A b \in pool.store.db.blocks :
            retrieve_block_data(MasterKey, pool.store.disk, b)
                = retrieve_block_data(MasterKey, pool.alone.disk,
                                      CHOOSE x \in pool.alone.db.blocks : x.id = b.id)

\* a file of two different chunks went through the pool, the second chunk
\* prepared before the first
C28_Witness ==
    /\ ~pool.active
    /\ Len(pool.ids) >= 2
    /\ pool.ids[1] # pool.ids[2]
    /\ pool.prepared[2].relative_path[2] < pool.prepared[1].relative_path[2]
    /\ Cardinality(pool.store.db.files) = 2

\* C30: retrieve_block_data raises the missing-blob error when the blob file
\* is absent and CryptoError when the MAC does not verify (other master key,
\* salt or nonce, modified ciphertext); what it returns is the stored
\* plaintext; it changes no blocks row and no blob.
C30_ReadFailsOrReturnsPlaintext ==
    /\ [](rd.phase = "read" =>
            /\ "blob missing" \in rd.damage => rd.result = FileNotFound
            /\ (rd.damage # {} /\ "blob missing" \notin rd.damage) => rd.result = CryptoError
            /\ rd.damage = {} => rd.result = Returned(rd.plain)
            /\ "returned" \in DOMAIN rd.result => rd.result.returned = rd.plain)
    /\ [][rd'.phase = "read" => (rd'.disk = rd.disk /\ rd'.block = rd.block)]_vars

\* the ciphertext was modified and nothing else; the read raised CryptoError
C30_Witness ==
    /\ rd.phase = "read"
    /\ rd.damage = {"ciphertext modified"}
    /\ rd.result = CryptoError
    /\ rd.disk[rd.block.path].pt # rd.plain

\* both calls are over (returned or raised), were given the same hash, and
\* each looked the hash up before either inserted its row
BothMissed ==
    /\ \A c \in Callers : race.calls[c].pc \in {"returned", "raised"} /\ race.calls[c].missed
    /\ race.calls[1].prepared.hash = race.calls[2].prepared.hash

\* C29: when two store_prepared_block calls for one hash that has no row
\* both look the hash up before either inserts, the final state has one
\* blocks row for the hash, with reference_count 2, and one blob file.
C29_UnserializedStoresDeduplicate ==
    BothMissed =>
        /\ \E b \in race.db.blocks :
            /\ BlockByHash(race.db, race.calls[1].prepared.hash) = {b}
            /\ b.rc = 2
        /\ Cardinality(DOMAIN race.disk) = 1

\* the status changes an operation record may go through
StatusSteps ==
    {<<"pending", "processing">>,
     <<"pending", "cancelling">>, <<"processing", "cancelling">>,
     <<"processing", "completed">>,
     <<"pending", "failed">>, <<"processing", "failed">>, <<"cancelling", "failed">>}

\* C31: the status of an operation record changes only along pending ->
\* processing, pending/processing -> cancelling, processing -> completed and
\* non-terminal -> failed; completed and failed are never left, and a cancel
\* request on a completed or failed record changes nothing.
C31_StatusTransitions ==
    /\ [](\A i \in 1..Len(ops) :
            ops[i].status \in {"completed", "failed"} => CancelRow(ops[i]) = ops[i])
    /\ [][/\ Len(ops') >= Len(ops)
          /\ \A i \in 1..Len(ops) :
                \/ ops'[i].status = ops[i].status
                \/ <<ops[i].status, ops'[i].status>> \in StatusSteps
          /\ \A i \in (Len(ops) + 1)..Len(ops') : ops'[i].status = "pending"]_vars

\* one operation was cancelled and ended failed, the next one completed; a
\* cancel request is possible on both
C31_Witness ==
    /\ Len(ops) = 2
    /\ ops[1].status = "failed"
    /\ ops[1].error = "interrupted"
    /\ "cancel" \in faults
    /\ ops[2].status = "completed"
    /\ ENABLED Cancel

\* C32: the controller's master_key is assigned only at the end of first-time
\* setup, with the key the setup produced, or in _verify_pin with the key
\* that decrypt_master_key returned and verify_key_hash accepted; while the
\* unlock dialog is up, whatever was typed, master_key is unset; the main
\* window exists only with master_key set and a repository obtained.
C32_KeyAssignedOnlyAfterUnlock ==
    /\ [](app.pc \in {"off", "first", "locked", "setters"} => app.master_key = None)
    /\ [](app.main_window # None =>
            /\ app.master_key # None
            /\ app.main_window.some.master_key = app.master_key
            /\ Some(app.main_window.some.repo) \in ActiveRepositories)
    /\ [][(app'.master_key # None /\ app'.master_key # app.master_key) =>
            \/ /\ app.pc = "setters"
               /\ Len(app.todo) = 1
               /\ app'.master_key = Some(app.fresh.key)
            \/ /\ app.pc = "locked"
               /\ \E pin \in Pins :
                    LET r == decrypt_master_key(GetBytes(cfgData, "encrypted_master_key"), pin,
                                                GetBytes(cfgData, "master_key_salt"),
                                                GetBytes(cfgData, "master_key_nonce")) IN
                    /\ "returned" \in DOMAIN r
                    /\ verify_key_hash(r.returned, GetHash(cfgData))
                    /\ app'.master_key = Some(r.returned)]_vars

\* a wrong PIN was rejected, the right one unlocked the key, and the main
\* window was built with it
C32_Witness ==
    /\ app.pc = "main"
    /\ keyHist.rejected # {}
    /\ keyHist.unlock # None
    /\ "returned" \in DOMAIN keyHist.unlock.result
    /\ app.main_window # None
    /\ app.main_window.some.master_key = Some(keyHist.unlock.result.returned)

\* the master-key fields of a configuration go together: none is there
\* (first run), or some PIN unlocks the key with them
KeyFieldsConsistent(d) ==
    \/ is_first_run(d)
    \/ \E pin \in Pins : "returned" \in DOMAIN VerifyAttempt(d, pin)

\* C33: wherever the process may stop between two config setters of the
\* first-time setup or of a PIN change, the persisted master-key fields are
\* consistent: first-run state, or ciphertext, salt, nonce and hash that
\* unlock the key under one PIN.
C33_KeyFieldsConsistentBetweenSetters ==
    (app.pc = "setters" /\ ~app.open) => KeyFieldsConsistent(_load_config(cfgFile))

\* the inputs of a PIN change that the dialog is to refuse, given the PIN in force
Refused(change, pin) ==
    \/ change.current_pin # pin
    \/ Len(change.new_pin) < 4
    \/ change.new_pin # change.confirm_pin
    \/ change.new_pin = change.current_pin

C35_CapacityNeverBelowUsage ==
    /\ [](UsedBytes(cdb) <= quota)
    /\ [][quota' # quota => UsedBytes(cdb) <= quota']_vars

\* name is stem, " (N)" for a counter N from 1, and suffix, where stem and
\* suffix make up the name asked for and suffix is empty or an extension: a
\* dot followed by characters that are no dots
KeepsStemAndExtension(result, asked) ==
    \E k \in 0..Len(asked), N \in 1..(MaxNames + 1) :
        /\ result = SubSeq(asked, 1, k) \o <<" ", "(">> \o Decimal(N) \o <<")">>
                        \o SubSeq(asked, k + 1, Len(asked))
        /\ k < Len(asked) =>
            /\ asked[k + 1] = "."
            /\ \A i \in (k + 2)..Len(asked) : asked[i] # "."

\* C36: get_unique_filename returns a name that is not in existing_names: the
\* name itself when it is free, otherwise 'stem (N)suffix' with the stem and
\* the extension of the name.
C36_UniqueNameKeepsStemAndSuffix ==
    names.last.called =>
        /\ names.last.result \notin names.last.existing_names
        /\ IF names.asked.some \notin names.last.existing_names
           THEN names.last.result = names.asked.some
           ELSE KeepsStemAndExtension(names.last.result, PathName(names.asked.some))

\* "a.a" was asked for with "a.a" and "a (1).a" taken
C36_Witness ==
    /\ names.last.called
    /\ names.asked = Some(<<"a", ".", "a">>)
    /\ {<<"a", ".", "a">>, <<"a", " ", "(", "1", ")", ".", "a">>} \subseteq names.last.existing_names
    /\ names.last.result = <<"a", " ", "(", "2", ")", ".", "a">>

\* C37: the names go file.txt -> file (2).txt -> file (3).txt: with only
\* "a.a" taken the result is "a (2).a", with "a.a" and "a (2).a" taken it is
\* "a (3).a".
C37_WindowsStyleSequence ==
    (names.last.called /\ names.asked = Some(<<"a", ".", "a">>)) =>
        /\ names.last.existing_names = {<<"a", ".", "a">>} =>
                names.last.result = <<"a", " ", "(", "2", ")", ".", "a">>
        /\ names.last.existing_names = {<<"a", ".", "a">>, <<"a", " ", "(", "2", ")", ".", "a">>} =>
                names.last.result = <<"a", " ", "(", "3", ")", ".", "a">>

\* the last call asked for the repository that was current and connected
AskedForCurrent ==
    /\ lastGet.arg # None
    /\ lastGet.repoDb # None
    /\ lastGet.repoDb.connection # None
    /\ lastGet.currentRepoPath = Some(Resolve(lastGet.arg.some))

\* the last call switched to another repository and returned
SwitchedRepository ==
    /\ lastGet.arg # None
    /\ lastGet.outcome = "returned"
    /\ lastGet.repoDb # None
    /\ lastGet.currentRepoPath # Some(Resolve(lastGet.arg.some))

\* C38: between calls of get_repository_database and
\* close_repository_database, _current_repo_path is None exactly when _repo_db
\* is None, at most one connection of the module is open (a switch that
\* returned has closed the previous one), and a call with the path of the
\* connected current repository returns the same instance on the same
\* connection.
C38_OneCurrentRepository ==
    /\ (currentRepoPath = None) <=> (repoDb = None)
    /\ Cardinality(openConns) <= 1
    /\ (repoDb # None /\ repoDb.connection # None) =>
            openConns = {repoDb.connection.some}
    /\ SwitchedRepository =>
        /\ lastGet.repoDb.connection # None =>
                lastGet.repoDb.connection.some \notin openConns
        /\ repoDb # None /\ repoDb.connection # None
        /\ currentRepoPath = Some(Resolve(lastGet.arg.some))
    /\ AskedForCurrent =>
        /\ lastGet.outcome = "returned"
        /\ repoDb = lastGet.repoDb
        /\ currentRepoPath = lastGet.currentRepoPath
        /\ openConns = lastGet.openConns

\* the current repository was asked for again under another spelling of its
\* path; its connection was opened by a switch while the previous one was
\* still open
C38_Witness ==
    /\ AskedForCurrent
    /\ lastGet.arg.some # repoDb.path
    /\ openConns = {2}

\* a step enters a transaction() block
EntersBlock == tx'.open = tx.open + 1

\* a step leaves the innermost transaction() block
LeavesBlock == tx'.open = tx.open - 1

\* C39: the exit of a transaction() block leaves _transaction_depth as the
\* entry found it, whether the body ended or raised; a block entered without
\* a connection never changes it; a commit or rollback goes to the connection
\* of the entry only, and when that connection is no longer the database's
\* the exit issues neither and raises nothing of its own.
C39_ExitRestoresDepthOnEntryConnection ==
    /\ [](tx.exit.done =>
            /\ tx.exit.after = tx.exit.depth
            /\ ~tx.exit.error
            /\ tx.exit.issued # "none" =>
                 tx.exit.conn # None /\ tx.exit.on = tx.exit.conn
            /\ (tx.exit.conn = None \/ tx.exit.current # tx.exit.conn) =>
                 tx.exit.issued = "none")
    /\ [][/\ (EntersBlock /\ tx.connection = None) => depth' = depth
          /\ (EntersBlock /\ tx.connection # None) => depth' = depth + 1
          /\ (LeavesBlock /\ tx.frames[tx.open].conn = None) => depth' = depth
          /\ LeavesBlock => depth' = tx.frames[tx.open].depth
          /\ ~(EntersBlock \/ LeavesBlock) => depth' = depth]_vars

\* an exception left the outermost of nested blocks after the connection of
\* its entry had been closed: neither commit nor rollback, depth back at 0
C39_Witness ==
    /\ tx.exit.done
    /\ tx.exit.conn # None
    /\ tx.exit.current = None
    /\ tx.exit.depth = 0
    /\ tx.exit.issued = "none"
    /\ tx.last = "raised"
    /\ tx.deepest >= 2
    /\ tx.open = 0
    /\ depth = 0

====
